---- MODULE Spec2Model ----
(***************************************************************************)
(* Remote execution and job tracking (myjob / slurmit).                    *)
(*                                                                         *)
(* The module holds one state machine per component of the repository:     *)
(*   SpecConnect  SSHClient.connect / close          (transport/ssh.py)    *)
(*   SpecFollow   LogMonitor._follow_log             (monitor/logs.py)     *)
(*   SpecWait     wait_for_completion                (cli/commands/run.py) *)
(*   SpecStore    the record store                   (storage/job_store.py)*)
(*   SpecRun      move_queue_to_runs and run         (cli/commands/run.py) *)
(*   SpecSubmit   submit, SlurmBackend.submit        (cli/commands/submit) *)
(* Every specification starts from the same Init and leaves the variables  *)
(* of the other components unchanged.                                      *)
(***************************************************************************)
EXTENDS Integers, Sequences, FiniteSets, TLC

VARIABLES
    \* ---- SSHClient (src/myjob/transport/ssh.py)
    c_pc,          \* position of the current connect call
    retries,       \* connect's `retries` argument
    attempt,       \* the loop variable `attempt`
    connection,    \* self._connection: "none", "failed" (open raised), "open"
    last_error,    \* the text of `last_error`, as the set of phrases it holds
    c_sleeps,      \* history: the time.sleep durations of the current call
    c_results,     \* history: the outcome of each attempt of the current call
    c_orphans,     \* connections opened, not closed, and no longer referenced
    c_with,        \* the `with` block on the instance: "out", "in", "left"
    c_fresh,       \* whether the block was entered on a newly made instance
    c_op,          \* the latest close, run or run_checked call and its outcome
    \* ---- LogMonitor.tail_logs (src/myjob/monitor/logs.py)
    t_pc,          \* position in tail_logs
    t_follow,      \* the `follow` argument
    t_stream,      \* the `stream` argument
    t_files,       \* remote state: the log files present in the record's log_dir
    g_logs,        \* the latest get_logs call and the LogContent it returned
    t_ls,          \* what get_log_paths' `ls` returned: ok and stdout
    t_path,        \* the local `log_path`
    t_out,         \* history: what tail_logs itself yielded
    \* ---- SlurmBackend.submit (src/slurmit/backend/slurm.py)
    b_output,      \* the tokens of sbatch's stdout in the latest submit
    b_result,      \* how that submit ended and the id it returned
    \* ---- StatusMonitor.get_status (src/slurmit/monitor/status.py)
    m_pc,          \* position in get_status
    m_live,        \* remote state: the state squeue prints for the job, if any
    m_hist,        \* remote state: the state sacct prints for the job, if any
    m_sq,          \* how the squeue query went: ok, and a line cut short
    m_asked,       \* history: the sources queried by this call, in order
    m_status,      \* what get_status returned
    \* ---- list_jobs over files with modification times (job_store.py)
    l_clock,       \* the time st_mtime is taken from
    l_dir,         \* the *.json files of the jobs directory: mtime and validity
    l_limit,       \* the `limit` argument of the latest list_jobs call since a write
    l_result,      \* the files whose records that call returned, in order
    l_found,       \* the latest find_job_by_slurm_id call since a write
    \* ---- NodeMonitor and LocalNodeMonitor (src/myjob/monitor/nodes.py)
    n_call,        \* the parser call made: its input and what it returned
    \* ---- the status and cancel commands (src/slurmit/cli/commands/status.py)
    k_file,        \* the record file of the job the commands are given
    k_last,        \* the latest command: what it met, showed and returned
    \* ---- wait_for_completion with its log file (src/slurmit/cli/commands/run.py)
    v_pc,          \* position of the call: "idle", "poll", "sleep", "returned"
    follow_logs,   \* the argument follow_logs
    v_log,         \* the bytes of log_file
    log_offset,    \* the local log_offset
    v_printed,     \* the bytes given to console.print
    \* ---- LogMonitor._follow_log (src/myjob/monitor/logs.py)
    f_pc,          \* position in _follow_log
    f_file,        \* the remote log file: its bytes, in order
    last_size,     \* the local `last_size`
    current_size,  \* the local `current_size`
    f_chunks,      \* history: the chunks yielded by the polling loop
    f_offset0,     \* history: `last_size` as first set, -1 before that
    \* ---- wait_for_completion (src/slurmit/cli/commands/run.py)
    w_pc,          \* position in wait_for_completion
    w_state,       \* the local `state`
    w_last_state,  \* the local `last_state`
    w_result,      \* the value returned
    w_observed,    \* history: the state each poll computed
    w_sleeps,      \* history: number of time.sleep(poll_interval) calls
    w_last_query,  \* history: whether the latest status query yielded a state
    \* ---- the record store (src/myjob/storage/job_store.py)
    files,         \* ~/.myjob/jobs: the content of <stem>.json for every stem
    s_pc,          \* per process: position in the store operation it runs
    s_rec,         \* per process: the `record` it is about to save
    s_lookup,      \* the latest find_job_by_prefix call on the store as it is
    s_cmd,         \* the latest resolution of a command's job argument
    \* ---- move_queue_to_runs and run (src/slurmit/cli/commands/run.py)
    clock,         \* datetime.now(), in whole seconds
    queue,         \* the job names that have a directory under queue/
    run_dirs,      \* the run ids that have a directory under runs/
    active,        \* per job name: the run id active/<job> links to, or NoRun
    r_pc,          \* per invocation of `run`: its position
    r_job,         \* per invocation: the job_name argument
    r_id,          \* per invocation: the local run_id
    r_log,         \* history: the run ids generate_run_id has returned
    \* ---- the submit command (src/myjob/cli/commands/submit.py)
    sub_pc,        \* position of the submit command ("idle" once another runs)
    sub_name,      \* the job it submits
    sub_ok_names   \* history: the jobs whose sbatch exited 0 with the sentinel

connVars == <<c_pc, retries, attempt, connection, last_error, c_sleeps, c_results,
              c_orphans>>

sessVars == <<c_with, c_fresh, c_op>>

followVars == <<f_pc, f_file, last_size, current_size, f_chunks, f_offset0>>

tailVars == <<t_pc, t_follow, t_stream, t_files, g_logs, t_ls, t_path, t_out>>

waitVars == <<w_pc, w_state, w_last_state, w_result, w_observed, w_sleeps, w_last_query>>

storeVars == <<files, s_pc, s_rec, s_lookup, s_cmd>>

runVars == <<clock, queue, run_dirs, active, r_pc, r_job, r_id, r_log>>

submitVars == <<sub_pc, sub_name, sub_ok_names>>

parseVars == <<b_output, b_result>>

statusVars == <<m_pc, m_live, m_hist, m_sq, m_asked, m_status>>

listVars == <<l_clock, l_dir, l_limit, l_result, l_found>>

nodeVars == <<n_call>>

cmdVars == <<k_file, k_last>>

waitLogVars == <<v_pc, follow_logs, v_log, log_offset, v_printed>>

vars == <<connVars, sessVars, followVars, waitVars, storeVars, runVars, submitVars,
          tailVars, parseVars, statusVars, listVars, nodeVars, cmdVars,
          waitLogVars>>

(***************************************************************************)
(* Bounds of the model.                                                    *)
(***************************************************************************)
MaxRetries == 3

\* the longest log file
MaxLog == 4

\* the most status polls of one wait_for_completion call
MaxPolls == 3

\* the most connections left open and unreferenced
MaxOrphans == 1

\* the last second of the clock
MaxClock == 1

\* the most invocations of `run` that get as far as generate_run_id
MaxRuns == 3

\* the most whitespace-separated tokens in sbatch's stdout
MaxTokens == 4

\* the most GPUs a node declares, and the most "/"-separated parts of a
\* CPU field
MaxGpu == 2

MaxParts == 5

\* the most lines sinfo prints in one query
MaxLines == 3

\* the latest modification time a record file can get
MaxMtime == 2

\* the most find_job_by_prefix calls in a row with one prefix
MaxCalls == 2

(***************************************************************************)
(* Helpers.                                                                *)
(***************************************************************************)
RECURSIVE Pow2(_)
Pow2(k) == IF k = 0 THEN 1 ELSE 2 * Pow2(k - 1)

Last(s) == s[Len(s)]

Range(s) == {s[i] : i \in DOMAIN s}

(***************************************************************************)
(* SSHClient.connect.  An exception text is modelled by the set of the     *)
(* phrases, among those the handler searches for, that its lowered text    *)
(* contains ("authentication" contains "auth").                            *)
(***************************************************************************)
Phrases == {"connection refused", "authentication", "auth", "timed out", "timeout",
            "name or service not known", "nodename", "permission denied"}

ErrorTexts == {t \in SUBSET Phrases : "authentication" \in t => "auth" \in t}

\* `last_error = None`: no exception text yet.
NoError == {"<none>"}

\* The if/elif chain of the except block: the first branch whose phrase occurs.
Classify(error_str) ==
    IF "connection refused" \in error_str THEN "connection_refused"
    ELSE IF "authentication" \in error_str \/ "auth" \in error_str THEN "auth_failed"
    ELSE IF "timed out" \in error_str \/ "timeout" \in error_str THEN "timeout"
    ELSE IF "name or service not known" \in error_str \/ "nodename" \in error_str
         THEN "host_not_found"
    ELSE IF "permission denied" \in error_str THEN "permission_denied"
    ELSE "generic"

\* The branches that `raise SSHConnectionError` inside the except block.
NonRetryableMutant == {"auth_failed", "permission_denied"}

NonRetryable == {"auth_failed", "host_not_found", "permission_denied"}

\* `if attempt < retries - 1` guards the backoff sleep.
SleepsAfter(a, n) == a < n - 1

\* time.sleep(2 ** attempt)
BackoffMutant(a) == 2 * a

Backoff(a) == Pow2(a)

\* connect(retries): the loop starts; with retries = 0 the body never runs and
\* the call raises "Failed to connect after 0 attempts".
ConnectCall(n) ==
    /\ c_pc \in {"idle", "returned", "raised"}
    /\ c_orphans < MaxOrphans
    /\ retries' = n
    /\ attempt' = 0
    /\ c_sleeps' = <<>>
    /\ c_results' = <<>>
    /\ last_error' = NoError
    /\ c_pc' = IF n > 0 THEN "attempt" ELSE "raised"
    /\ UNCHANGED <<connection, c_orphans>>

\* `self._connection = Connection(...)` drops the reference to the object the
\* attribute held; an open connection dropped so is nobody's to close.
Orphaned(conn, orphans) == IF conn = "open" THEN orphans + 1 ELSE orphans

\* One pass of the try block that succeeds: Connection(...), open(), return.
AttemptOk ==
    /\ c_pc = "attempt"
    /\ connection' = "open"
    /\ c_results' = Append(c_results, "ok")
    /\ c_pc' = "returned"
    /\ c_orphans' = Orphaned(connection, c_orphans)
    /\ UNCHANGED <<retries, attempt, last_error, c_sleeps>>

\* One pass whose open() raises an exception with text e: self._connection
\* already holds the new Connection object; the except block classifies e.
AttemptFail(e) ==
    /\ c_pc = "attempt"
    /\ connection' = "failed"
    /\ last_error' = e
    /\ c_results' = Append(c_results, Classify(e))
    /\ c_orphans' = Orphaned(connection, c_orphans)
    /\ IF Classify(e) \in NonRetryable
       THEN c_pc' = "raised" /\ UNCHANGED attempt
       ELSE IF SleepsAfter(attempt, retries)
            THEN c_pc' = "sleep" /\ UNCHANGED attempt
            ELSE /\ attempt' = attempt + 1
                 /\ c_pc' = IF attempt + 1 < retries THEN "attempt" ELSE "raised"
    /\ UNCHANGED <<retries, c_sleeps>>

\* time.sleep(2 ** attempt), then the next iteration of the for loop.
BackoffSleep ==
    /\ c_pc = "sleep"
    /\ c_sleeps' = Append(c_sleeps, Backoff(attempt))
    /\ attempt' = attempt + 1
    /\ c_pc' = IF attempt + 1 < retries THEN "attempt" ELSE "raised"
    /\ UNCHANGED <<retries, connection, last_error, c_results, c_orphans>>

\* SSHClient.close
Close ==
    /\ c_pc \in {"idle", "returned", "raised"}
    /\ connection # "none"
    /\ connection' = "none"
    /\ UNCHANGED <<c_pc, retries, attempt, last_error, c_sleeps, c_results, c_orphans>>

Connect == \E n \in 0..MaxRetries : ConnectCall(n)

AttemptRaises == \E e \in ErrorTexts : AttemptFail(e)

ConnectStep == AttemptOk \/ AttemptRaises \/ BackoffSleep

(***************************************************************************)
(* Using the client: close, the `with` block, run and run_checked.         *)
(***************************************************************************)
\* connect's default `retries`
DefaultRetries == 3

\* the failures of open() tried while the client is in use
SessionErrors == {{"timed out", "timeout"}, {"authentication", "auth"}}

\* how the body of a `with` block ends
BodyEnds == {"normal", "raises", "interrupted"}

\* remote exit statuses
ExitCodes == {0, 1, 127}

\* what the remote command wrote to stderr, stripped
Stderrs == {"", "No such file"}

NoOp == [op |-> "none", warn |-> FALSE, exit |-> 0, stderr |-> "",
         outcome |-> "none", return_code |-> 0, ok |-> FALSE, message |-> ""]

\* close(): `if self._connection:` close it; `self._connection = None`
AfterCloseMutant(conn) == IF conn = "open" THEN "none" ELSE conn

AfterClose(conn) == "none"

\* __exit__ calls close() however the body ended
ExitClosesMutant(how) == how = "normal"

ExitCloses(how) == TRUE

\* Connection.run of the library: a non-zero exit raises UnexpectedExit
\* unless warn is set; the result has ok = (exited == 0)
UnexpectedExit(warn, exit) == ~warn /\ exit # 0

\* the CommandResult of SSHClient.run: from the result, or, in the
\* `except UnexpectedExit` branch, from e.result with ok=False
CommandOkMutant(warn, exit) == TRUE

CommandOk(warn, exit) == IF UnexpectedExit(warn, exit) THEN FALSE ELSE exit = 0

\* close() at any time outside a connect call
CloseCall ==
    /\ c_pc \in {"idle", "returned", "raised"}
    /\ connection' = AfterClose(connection)
    /\ c_op' = [NoOp EXCEPT !.op = "close", !.outcome = "returned",
                            !.message = connection]
    /\ UNCHANGED <<c_pc, retries, attempt, last_error, c_sleeps, c_results, c_orphans,
                   c_with, c_fresh>>

\* __enter__: self.connect() with the default arguments
WithEnter ==
    /\ c_with \in {"out", "left"}
    /\ ConnectCall(DefaultRetries)
    /\ c_with' = "in"
    /\ c_fresh' = (connection = "none" /\ c_orphans = 0)
    /\ UNCHANGED c_op

\* connect raised inside __enter__: the block is not entered and __exit__
\* does not run
WithEnterRaised ==
    /\ c_with = "in"
    /\ c_pc = "raised"
    /\ c_with' = "out"
    /\ UNCHANGED <<connVars, c_fresh, c_op>>

\* the body has ended, normally or by an exception: __exit__
WithExit(how) ==
    /\ c_with = "in"
    /\ c_pc = "returned"
    /\ connection' = IF ExitCloses(how) THEN AfterClose(connection) ELSE connection
    /\ c_with' = "left"
    /\ UNCHANGED <<c_pc, retries, attempt, last_error, c_sleeps, c_results, c_orphans,
                   c_fresh, c_op>>

\* the `connection` property when the instance holds none: connect()
AccessConnection ==
    /\ connection = "none"
    /\ ConnectCall(DefaultRetries)
    /\ UNCHANGED sessVars

\* run(command, warn) on an open connection whose command exits with `exit`
Run(warn, exit, stderr) ==
    /\ c_pc \in {"idle", "returned", "raised"}
    /\ connection = "open"
    /\ c_op' = [op |-> "run", warn |-> warn, exit |-> exit, stderr |-> stderr,
                outcome |-> "returned", return_code |-> exit,
                ok |-> CommandOk(warn, exit), message |-> ""]
    /\ UNCHANGED <<connVars, c_with, c_fresh>>

\* run_checked(command): run with warn=False, RuntimeError when not ok
RunChecked(exit, stderr) ==
    /\ c_pc \in {"idle", "returned", "raised"}
    /\ connection = "open"
    /\ c_op' = IF CommandOk(FALSE, exit)
               THEN [op |-> "run_checked", warn |-> FALSE, exit |-> exit,
                     stderr |-> stderr, outcome |-> "returned", return_code |-> exit,
                     ok |-> TRUE, message |-> ""]
               ELSE [op |-> "run_checked", warn |-> FALSE, exit |-> exit,
                     stderr |-> stderr, outcome |-> "RuntimeError", return_code |-> exit,
                     ok |-> FALSE, message |-> stderr]
    /\ UNCHANGED <<connVars, c_with, c_fresh>>

InitSession ==
    /\ c_with = "out"
    /\ c_fresh = FALSE
    /\ c_op = NoOp

InitConnect ==
    /\ c_pc = "idle"
    /\ retries = 0
    /\ attempt = 0
    /\ connection = "none"
    /\ last_error = NoError
    /\ c_sleeps = <<>>
    /\ c_results = <<>>
    /\ c_orphans = 0

(***************************************************************************)
(* LogMonitor._follow_log.  The remote file is a sequence of bytes that    *)
(* the job appends to; "nl" stands for a whitespace byte (a newline) and   *)
(* "x" for any other byte.  Every command goes through SSHClient.run with  *)
(* warn=True: it may come back with ok = False, and its stdout is          *)
(* stripped of leading and trailing whitespace.                            *)
(***************************************************************************)
LogBytes == {"x", "nl"}

RECURSIVE LStrip(_)
LStrip(s) == IF s # <<>> /\ Head(s) = "nl" THEN LStrip(Tail(s)) ELSE s

RECURSIVE RStrip(_)
RStrip(s) ==
    IF s # <<>> /\ s[Len(s)] = "nl" THEN RStrip(SubSeq(s, 1, Len(s) - 1)) ELSE s

\* str.strip() as applied to result.stdout in SSHClient.run
Strip(s) == RStrip(LStrip(s))

\* `tail -c n file`: the last n bytes of the file as it is when the command runs
TailBytes(file, n) ==
    IF n >= Len(file) THEN file ELSE SubSeq(file, Len(file) - n + 1, Len(file))

RECURSIVE Flatten(_)
Flatten(chunks) ==
    IF chunks = <<>> THEN <<>> ELSE Head(chunks) \o Flatten(Tail(chunks))

\* The job writes one more byte to its log.
LogAppend(b) ==
    /\ Len(f_file) < MaxLog
    /\ f_file' = Append(f_file, b)
    /\ UNCHANGED <<f_pc, last_size, current_size, f_chunks, f_offset0>>

\* `tail -n initial_lines`, yielded when ok (the initial chunk is not one of
\* the polled chunks).
FollowInitialRead(ok) ==
    /\ f_pc = "initial_read"
    /\ f_pc' = "initial_stat"
    /\ UNCHANGED <<f_file, last_size, current_size, f_chunks, f_offset0>>

\* last_size = int(stdout) if ok else 0
FollowInitialStat(ok) ==
    /\ f_pc = "initial_stat"
    /\ last_size' = IF ok THEN Len(f_file) ELSE 0
    /\ f_offset0' = last_size'
    /\ f_pc' = "sleep"
    /\ UNCHANGED <<f_file, current_size, f_chunks>>

\* time.sleep(1), the size query, and the comparison with last_size
FollowPollStat(ok) ==
    /\ f_pc = "sleep"
    /\ IF ~ok
       THEN UNCHANGED <<f_pc, current_size>>
       ELSE /\ current_size' = Len(f_file)
            /\ f_pc' = IF current_size' > last_size THEN "read" ELSE "sleep"
    /\ UNCHANGED <<f_file, last_size, f_chunks, f_offset0>>

\* tail -c bytes_to_read; yield when ok and not empty; last_size = current_size
FollowDeltaRead(ok) ==
    /\ f_pc = "read"
    /\ LET bytes_to_read == current_size - last_size
           stdout == Strip(TailBytes(f_file, bytes_to_read))
       IN  f_chunks' = IF ok /\ stdout # <<>> THEN Append(f_chunks, stdout) ELSE f_chunks
    /\ last_size' = current_size
    /\ f_pc' = "sleep"
    /\ UNCHANGED <<f_file, current_size, f_offset0>>

(***************************************************************************)
(* LogMonitor.tail_logs: the log path is resolved, then either the marker  *)
(* of a missing file, or _follow_log, or one `tail -n`.                    *)
(***************************************************************************)
\* The record's log_dir belongs to one submission; its job writes
\* job_<id>.out and job_<id>.err there once it starts.
LogExts == {"out", "err"}

Streams == {"stdout", "stderr"}

StreamExt(stream) == IF stream = "stdout" THEN "out" ELSE "err"

LogName == [out |-> "logs/job_101.out", err |-> "logs/job_101.err"]

\* stdout of `ls -1 {log_dir}/*{slurm_job_id}*.<ext> 2>/dev/null | head -1`,
\* stripped: the first match, nothing when the glob matches no file
LsStdoutMutant(present, ext) == LogName[ext]

LsStdout(present, ext) == IF ext \in present THEN LogName[ext] ELSE ""

\* the job starts writing a log file
LogCreate(ext) ==
    /\ ext \notin t_files
    /\ t_files' = t_files \cup {ext}
    /\ UNCHANGED <<t_pc, t_follow, t_stream, g_logs, t_ls, t_path, t_out>>

\* stdout_path = stdout_result.stdout.strip() if stdout_result.ok else ""
ResolvedPathMutant(ok, output) == output

ResolvedPath(ok, output) == IF ok THEN output ELSE ""

\* tail_logs(job_record, follow): a generator, nothing runs before the
\* first next()
TailCall(follow, stream) ==
    /\ t_pc \in {"idle", "ended"}
    /\ t_follow' = follow
    /\ t_stream' = stream
    /\ t_pc' = "paths"
    /\ t_out' = <<>>
    /\ UNCHANGED <<t_files, g_logs, t_ls, t_path>>

\* get_log_paths and `if not log_path`: the marker, then return
TailResolve(ok) ==
    LET output == LsStdout(t_files, StreamExt(t_stream))
    IN  /\ t_pc = "paths"
        /\ t_ls' = [ok |-> ok, out |-> output, files |-> t_files]
        /\ t_path' = ResolvedPath(ok, output)
        /\ IF ResolvedPath(ok, output) = ""
           THEN t_out' = Append(t_out, "marker") /\ t_pc' = "ended"
           ELSE t_pc' = (IF t_follow THEN "following" ELSE "tail") /\ UNCHANGED t_out
        /\ UNCHANGED <<t_follow, t_stream, t_files, g_logs>>

\* the one-time `tail -n`: its output or the error text, then the end
TailOnce(ok) ==
    /\ t_pc = "tail"
    /\ t_out' = Append(t_out, IF ok THEN "content" ELSE "error")
    /\ t_pc' = "ended"
    /\ UNCHANGED <<t_follow, t_stream, t_files, g_logs, t_ls, t_path>>

\* get_logs(job_record, lines): both paths are resolved, each file found is
\* read, a failed read gives "" for that stream
NoLogs == [called |-> FALSE, files |-> {}, stdout |-> "", stderr |-> "",
           stdout_path |-> "", stderr_path |-> ""]

GetLogs(ls_out_ok, ls_err_ok, read_out_ok, read_err_ok) ==
    LET stdout_path == ResolvedPath(ls_out_ok, LsStdout(t_files, "out"))
        stderr_path == ResolvedPath(ls_err_ok, LsStdout(t_files, "err"))
    IN  /\ t_pc \in {"idle", "ended"}
        /\ g_logs' = [called |-> TRUE, files |-> t_files,
                      stdout |-> IF stdout_path # "" /\ read_out_ok
                                 THEN "content" ELSE "",
                      stderr |-> IF stderr_path # "" /\ read_err_ok
                                 THEN "content" ELSE "",
                      stdout_path |-> stdout_path, stderr_path |-> stderr_path]
        /\ UNCHANGED <<t_pc, t_follow, t_stream, t_files, t_ls, t_path, t_out>>

\* The caller stops iterating a following tail_logs: KeyboardInterrupt in
\* the `for chunk in ...` loop, or the iterator is dropped. _follow_log has
\* no try/finally and touches self.ssh only through run.
CancelKinds == {"interrupted", "abandoned"}

SessionAfterCancelMutant(conn) == "none"

SessionAfterCancel(conn) == conn

TailCancel(how) ==
    /\ t_pc = "following"
    /\ t_pc' = how
    /\ connection' = SessionAfterCancel(connection)
    /\ UNCHANGED <<t_follow, t_stream, t_files, g_logs, t_ls, t_path, t_out>>
    /\ UNCHANGED <<c_pc, retries, attempt, last_error, c_sleeps, c_results, c_orphans>>

TailStep == (\E ok \in BOOLEAN : TailResolve(ok))
                \/ (\E ok \in BOOLEAN : TailOnce(ok))

InitTail ==
    /\ t_pc = "idle"
    /\ t_follow = FALSE
    /\ t_stream = "stdout"
    /\ t_files = {}
    /\ g_logs = NoLogs
    /\ t_ls = [ok |-> FALSE, out |-> "", files |-> {}]
    /\ t_path = ""
    /\ t_out = <<>>

InitFollow ==
    /\ f_pc = "initial_read"
    /\ f_file = <<>>
    /\ last_size = 0
    /\ current_size = 0
    /\ f_chunks = <<>>
    /\ f_offset0 = -1

(***************************************************************************)
(* JobState and wait_for_completion.  A state string printed by squeue or  *)
(* sacct is modelled by its upper-case core word and by what surrounds it: *)
(* lower-case letters, surrounding blanks, a suffix (" by 1000", "+").     *)
(***************************************************************************)
JobStates == {"PENDING", "RUNNING", "COMPLETING", "COMPLETED", "FAILED", "CANCELLED",
              "TIMEOUT", "NODE_FAIL", "PREEMPTED", "OUT_OF_MEMORY", "UNKNOWN"}

StateStrings ==
    {r \in [core : JobStates \cup {"REQUEUED"}, lower : BOOLEAN, padded : BOOLEAN,
            suffix : BOOLEAN] :
        Cardinality({f \in {"lower", "padded", "suffix"} : r[f]}) <= 1}

\* a query that exits non-zero or prints nothing
NoOutput == [core |-> "", lower |-> FALSE, padded |-> FALSE, suffix |-> FALSE]

\* str.upper() and str.strip()
Upper(r) == [r EXCEPT !.lower = FALSE]

StripBlanks(r) == [r EXCEPT !.padded = FALSE]

\* JobState.from_string: cls(state.upper().strip()), UNKNOWN on ValueError
from_stringMutant(r) ==
    LET state == StripBlanks(Upper(r))
    IN  IF state.core \in JobStates /\ ~state.lower /\ ~state.padded /\ ~state.suffix
        THEN state.core
        ELSE r.core

from_string(r) ==
    LET state == StripBlanks(Upper(r))
    IN  IF state.core \in JobStates /\ ~state.lower /\ ~state.padded /\ ~state.suffix
        THEN state.core
        ELSE "UNKNOWN"

\* the tuple tested by `if state in (...)`
TerminalMutant == {"COMPLETED", "FAILED", "CANCELLED", "TIMEOUT", "NODE_FAIL"}

Terminal == {"COMPLETED", "FAILED", "CANCELLED", "TIMEOUT", "NODE_FAIL", "OUT_OF_MEMORY"}

\* The state one pass of the try block computes: squeue first, sacct when
\* squeue exits non-zero or prints nothing, UNKNOWN when neither yields a
\* state or when subprocess.run raises.
QueriedState(raised, squeue, sacct) ==
    IF raised THEN "UNKNOWN"
    ELSE IF squeue # NoOutput THEN from_string(StripBlanks(squeue))
    ELSE IF sacct # NoOutput THEN from_string(StripBlanks(sacct))
    ELSE "UNKNOWN"

QueryYields(raised, squeue, sacct) ==
    ~raised /\ (squeue # NoOutput \/ sacct # NoOutput)

\* wait_for_completion is called.
WaitCall ==
    /\ w_pc = "idle"
    /\ w_pc' = "poll"
    /\ UNCHANGED <<w_state, w_last_state, w_result, w_observed, w_sleeps, w_last_query>>

\* One pass of the loop body up to the terminal test: the status query, the
\* update of last_state, and `break` + `return state` on a terminal state.
WaitPoll(raised, squeue, sacct) ==
    /\ w_pc = "poll"
    /\ Len(w_observed) < MaxPolls
    /\ w_state' = QueriedState(raised, squeue, sacct)
    /\ w_last_state' = w_state'
    /\ w_observed' = Append(w_observed, w_state')
    /\ w_last_query' = IF QueryYields(raised, squeue, sacct) THEN "ok" ELSE "failed"
    /\ IF w_state' \in Terminal
       THEN w_pc' = "returned" /\ w_result' = w_state'
       ELSE w_pc' = "sleep" /\ UNCHANGED w_result
    /\ UNCHANGED w_sleeps

\* time.sleep(poll_interval) at the end of the loop body
WaitSleep ==
    /\ w_pc = "sleep"
    /\ w_sleeps' = w_sleeps + 1
    /\ w_pc' = "poll"
    /\ UNCHANGED <<w_state, w_last_state, w_result, w_observed, w_last_query>>

WaitPollAny ==
    \/ \E squeue \in StateStrings : WaitPoll(FALSE, squeue, NoOutput)
    \/ \E sacct \in StateStrings \cup {NoOutput} : WaitPoll(FALSE, NoOutput, sacct)
    \/ WaitPoll(TRUE, NoOutput, NoOutput)

InitWait ==
    /\ w_pc = "idle"
    /\ w_state = "<unset>"
    /\ w_last_state = "<none>"
    /\ w_result = "<none>"
    /\ w_observed = <<>>
    /\ w_sleeps = 0
    /\ w_last_query = "none"

(***************************************************************************)
(* The record store.  A job name and a file stem are sequences of          *)
(* characters; a record file is absent, holds one complete record, or is   *)
(* malformed: empty (just truncated by open(.., "w")) or partial (a write  *)
(* cut short).  Processes are the CLI invocations that use the store.      *)
(***************************************************************************)
JobNames == {<<"a", "_", "b">>, <<"a", "/", "b">>, <<"a", "_", "b", "c">>}

\* the CLI invocations that write the store (readers are the Lookup steps)
Procs == {"p1", "p2"}

\* the one that runs when the commands run one at a time
Writers == {"p1"}

Statuses == {"QUEUED", "RUNNING", "COMPLETED"}

\* scheduler ids; "none" is Python's None
SlurmIds == {"none", "101"}

Records == [name : JobNames, status : Statuses, slurm_job_id : SlurmIds]

NoRecord == [name |-> <<>>, status |-> "", slurm_job_id |-> ""]

Absent == [kind |-> "absent", rec |-> NoRecord]

Empty == [kind |-> "empty", rec |-> NoRecord]

Partial == [kind |-> "partial", rec |-> NoRecord]

\* a file holding complete JSON text; rec is the record that json.load and
\* JobRecord(**data) give for it
Whole(record) == [kind |-> "whole", rec |-> record]

\* a file holding the text of one write over the longer text of another
Mixed == [kind |-> "mixed", rec |-> NoRecord]

\* the number of characters of a status
StatusLen(status) ==
    IF status = "QUEUED" THEN 6 ELSE IF status = "RUNNING" THEN 7 ELSE 9

\* the length of the JSON text of a record, up to the part all texts share:
\* null has 4 characters, "101" with its quotes 5
TextLen(record) ==
    Len(record.name) + StatusLen(record.status)
        + (IF record.slurm_job_id = "none" THEN 4 ELSE 5)

LongestText == 4 + 9 + 5

\* the length of a file; a partial text is the first character of one
ContentLen(content) ==
    IF content.kind \in {"absent", "empty"} THEN 0
    ELSE IF content.kind = "partial" THEN 1
    ELSE IF content.kind = "whole" THEN TextLen(content.rec)
    ELSE LongestText

\* The file after a process writes `text_len` characters of `written` from
\* its own offset 0 (the file was opened without O_APPEND): the characters
\* of a longer earlier content stay after them.
WriteAtStart(content, written, text_len) ==
    IF text_len >= ContentLen(content) THEN written ELSE Mixed

\* one field value as JSON: None is null, a str is a string
JsonOf(value) == IF value = "none" THEN <<"null">> ELSE <<"string", value>>

\* one JSON value as Python
PyOf(json) == IF json[1] = "null" THEN "none" ELSE json[2]

\* json.dump(record.model_dump(), f): every field of the record, by key
model_dump_jsonMutant(record) ==
    [k \in DOMAIN record |->
        IF k = "slurm_job_id" THEN <<"null">> ELSE JsonOf(record[k])]

model_dump_json(record) == [k \in DOMAIN record |-> JsonOf(record[k])]

\* JobRecord(**json.load(f))
JobRecordOf(data) == [k \in DOMAIN data |-> PyOf(data[k])]

IsPrefix(prefix, str) ==
    Len(prefix) <= Len(str) /\ SubSeq(str, 1, Len(prefix)) = prefix

\* safe_name = name.replace("/", "_").replace("\\", "_")
safe_name(name) ==
    [i \in DOMAIN name |-> IF name[i] \in {"/", "\\"} THEN "_" ELSE name[i]]

\* get_job_file(name), as the stem of the file
get_job_file(name) == safe_name(name)

Stems == {get_job_file(n) : n \in JobNames}

Prefixes ==
    UNION {{SubSeq(n, 1, k) : k \in 0..Len(n)} : n \in JobNames} \cup {<<"b", "b">>}

\* `if len(prefix) < 2`
MinPrefixLen == 2

\* jobs_dir.glob(f"{prefix}*.json"): the files of the directory whose name
\* starts with the prefix; a "/" in the pattern descends into a
\* subdirectory, and the directory has none.
GlobMatches(prefix) ==
    IF "/" \in Range(prefix) THEN {}
    ELSE {st \in Stems : files[st].kind # "absent" /\ IsPrefix(prefix, st)}

\* find_job_by_prefix: what the call returns or raises
find_job_by_prefix(prefix) ==
    IF Len(prefix) < MinPrefixLen
    THEN [kind |-> "usage_error", rec |-> NoRecord]
    ELSE LET matches == GlobMatches(prefix)
         IN  IF matches = {} THEN [kind |-> "none", rec |-> NoRecord]
             ELSE IF Cardinality(matches) > 1
                  THEN [kind |-> "ambiguous", rec |-> NoRecord]
                  ELSE LET st == CHOOSE m \in matches : TRUE
                       IN  IF files[st].kind = "whole"
                           THEN [kind |-> "record", rec |-> files[st].rec]
                           ELSE [kind |-> "decode_error", rec |-> NoRecord]

NoLookup == [prefix |-> <<>>, result |-> [kind |-> "not_called", rec |-> NoRecord],
             calls |-> 0]

NoCmd == [input |-> <<>>, prefix_kind |-> "not_called", outcome |-> "not_called",
          rec |-> NoRecord]

\* what a user types as the job argument of status, logs or cancel
CmdInputs == Prefixes \cup {<<"1", "0", "1">>}

\* a scheduler id as the text a user types; None equals no text
SlurmIdText(id) == IF id = "101" THEN <<"1", "0", "1">> ELSE <<"None">>

\* get_job(name) on the directory `dir`: None, the record, or the
\* JSONDecodeError of json.load
read_job(dir, name) ==
    IF get_job_file(name) \notin Stems THEN [kind |-> "none", rec |-> NoRecord]
    ELSE LET content == dir[get_job_file(name)]
         IN  IF content.kind = "absent" THEN [kind |-> "none", rec |-> NoRecord]
             ELSE IF content.kind = "whole"
                  THEN [kind |-> "record", rec |-> content.rec]
                  ELSE [kind |-> "decode_error", rec |-> NoRecord]

get_job(name) == read_job(files, name)

\* list_jobs: the records of the well-formed files (invalid files skipped)
list_jobs == {files[st].rec : st \in {x \in Stems : files[x].kind = "whole"}}

\* find_job_by_slurm_id: the records the loop over list_jobs can return
find_job_by_slurm_id(text) == {r \in list_jobs : SlurmIdText(r.slurm_job_id) = text}

\* create_job_record up to its save_job call: the record is built, QUEUED.
CreateCall(p, name, slurm_job_id) ==
    /\ s_pc[p] = "idle"
    /\ s_rec' = [s_rec EXCEPT ![p] =
                    [name |-> name, status |-> "QUEUED", slurm_job_id |-> slurm_job_id]]
    /\ s_pc' = [s_pc EXCEPT ![p] = "loaded"]
    /\ UNCHANGED <<files, s_lookup, s_cmd>>

\* update_job_status up to its save_job call: get_job(name) (None when the
\* file is absent, JSONDecodeError when it is malformed), then the
\* assignments to the loaded record.  s_cmd keeps the identifier, the
\* record get_job gave and the way the call goes on.
UpdateRead(p, name, status, slurm_job_id) ==
    /\ s_pc[p] = "idle"
    /\ LET content == files[get_job_file(name)]
       IN  IF content.kind = "whole"
           THEN /\ s_rec' = [s_rec EXCEPT ![p] =
                       [content.rec EXCEPT
                           !.status = status,
                           !.slurm_job_id = IF slurm_job_id # "none"
                                            THEN slurm_job_id ELSE @]]
                /\ s_pc' = [s_pc EXCEPT ![p] = "loaded"]
                /\ s_cmd' = [input |-> name, prefix_kind |-> "not_called",
                             outcome |-> "update_true", rec |-> content.rec]
           ELSE /\ UNCHANGED <<s_rec, s_pc>>
                /\ s_cmd' = [input |-> name, prefix_kind |-> "not_called",
                             outcome |-> IF content.kind = "absent"
                                         THEN "update_false" ELSE "update_raises",
                             rec |-> NoRecord]
    /\ UNCHANGED <<files, s_lookup>>

\* save_job, first half: open(job_file, "w") truncates the file.
SaveOpen(p) ==
    /\ s_pc[p] = "loaded"
    /\ files' = [files EXCEPT ![get_job_file(s_rec[p].name)] = Empty]
    /\ s_pc' = [s_pc EXCEPT ![p] = "opened"]
    /\ s_lookup' = NoLookup
    /\ s_cmd' = NoCmd
    /\ UNCHANGED s_rec

\* save_job, second half: json.dump and the close that flushes it.
SaveDump(p) ==
    /\ s_pc[p] = "opened"
    /\ files' = [files EXCEPT ![get_job_file(s_rec[p].name)] =
                    WriteAtStart(@, Whole(JobRecordOf(model_dump_json(s_rec[p]))),
                                 TextLen(s_rec[p]))]
    /\ s_pc' = [s_pc EXCEPT ![p] = "idle"]
    /\ s_rec' = [s_rec EXCEPT ![p] = NoRecord]
    /\ s_lookup' = NoLookup
    /\ s_cmd' = NoCmd

\* The process is interrupted or killed inside save_job; `flushed` tells
\* whether a part of the text had reached the file.
Interrupt(p, flushed) ==
    /\ s_pc[p] = "opened"
    /\ files' = IF flushed
                THEN [files EXCEPT ![get_job_file(s_rec[p].name)] =
                         WriteAtStart(@, Partial, 1)]
                ELSE files
    /\ s_pc' = [s_pc EXCEPT ![p] = "idle"]
    /\ s_rec' = [s_rec EXCEPT ![p] = NoRecord]
    /\ s_lookup' = NoLookup
    /\ s_cmd' = NoCmd

\* delete_job: `if job_file.exists(): job_file.unlink(); return True`, else
\* `return False`; s_cmd keeps the name and the value returned
DeleteJob(p, name) ==
    /\ s_pc[p] = "idle"
    /\ IF files[get_job_file(name)].kind # "absent"
       THEN /\ files' = [files EXCEPT ![get_job_file(name)] = Absent]
            /\ s_cmd' = [input |-> name, prefix_kind |-> "not_called",
                         outcome |-> "delete_true", rec |-> NoRecord]
       ELSE /\ UNCHANGED files
            /\ s_cmd' = [input |-> name, prefix_kind |-> "not_called",
                         outcome |-> "delete_false", rec |-> NoRecord]
    /\ s_lookup' = NoLookup
    /\ UNCHANGED <<s_pc, s_rec>>

\* What the directory holds after jobs_dir.glob(...) and open(matches[0]):
\* both only read.
DirAfterGlobMutant(dir) ==
    [st \in DOMAIN dir |-> IF dir[st].kind \in {"absent", "whole"} THEN dir[st] ELSE Absent]

DirAfterGlob(dir) == dir

\* A find_job_by_prefix call (a read of the directory and of one file);
\* `calls` counts the calls in a row with this prefix on the unmodified store.
Lookup(prefix) ==
    /\ LET calls == IF s_lookup.prefix = prefix THEN s_lookup.calls + 1 ELSE 1
       IN  /\ calls <= MaxCalls
           /\ s_lookup' = [prefix |-> prefix, result |-> find_job_by_prefix(prefix),
                           calls |-> calls]
    /\ files' = DirAfterGlob(files)
    /\ s_cmd' = NoCmd
    /\ UNCHANGED <<s_pc, s_rec>>

\* The head of the status, logs and cancel commands: find_job_by_name, then
\* find_job_by_prefix with `except ValueError: pass` (JSONDecodeError is a
\* ValueError), then find_job_by_slurm_id, then "Job not found".  No record
\* of the store carries a run id, so find_job_by_run_id finds nothing.
ResolveJob(job_name) ==
    /\ LET by_name == get_job(job_name)
           by_prefix == find_job_by_prefix(job_name)
           by_id == find_job_by_slurm_id(job_name)
       IN  IF by_name.kind = "decode_error"
           THEN /\ s_cmd' = [input |-> job_name, prefix_kind |-> "not_called",
                             outcome |-> "crash", rec |-> NoRecord]
                /\ s_lookup' = NoLookup
           ELSE IF by_name.kind = "record"
           THEN /\ s_cmd' = [input |-> job_name, prefix_kind |-> "not_called",
                             outcome |-> "found", rec |-> by_name.rec]
                /\ s_lookup' = NoLookup
           ELSE /\ s_lookup' = [prefix |-> job_name, result |-> by_prefix, calls |-> 1]
                /\ IF by_prefix.kind = "record"
                   THEN s_cmd' = [input |-> job_name, prefix_kind |-> "record",
                                  outcome |-> "found", rec |-> by_prefix.rec]
                   ELSE IF by_id = {}
                   THEN s_cmd' = [input |-> job_name, prefix_kind |-> by_prefix.kind,
                                  outcome |-> "not_found", rec |-> NoRecord]
                   ELSE \E r \in by_id :
                            s_cmd' = [input |-> job_name, prefix_kind |-> by_prefix.kind,
                                      outcome |-> "found", rec |-> r]
    /\ UNCHANGED <<files, s_pc, s_rec>>

InitStore ==
    /\ files = [st \in Stems |-> Absent]
    /\ s_pc = [p \in Procs |-> "idle"]
    /\ s_rec = [p \in Procs |-> NoRecord]
    /\ s_lookup = NoLookup
    /\ s_cmd = NoCmd

(***************************************************************************)
(* The server-side `run` command.  A run id is the pair of the job name    *)
(* and the timestamp strftime("%Y%m%d_%H%M%S") gives: the clock in whole   *)
(* seconds.  Several invocations of `run` may be in progress.              *)
(***************************************************************************)
RunJobs == {"j1", "j2"}

RunProcs == {"r1", "r2"}

NoRun == <<"", -1>>

\* what `sbatch` prints: nothing, an error, or the submission line
Stdouts == {<<>>, <<"sbatch:", "error">>, <<"Submitted", "batch", "job", "101">>}

\* `"Submitted batch job" in output`
HasSentinel(output) ==
    \E i \in 1..(Len(output) - 2) :
        output[i] = "Submitted" /\ output[i + 1] = "batch" /\ output[i + 2] = "job"

\* generate_run_id: f"{job_name}_{timestamp}", second granularity
generate_run_id(job_name, now) == <<job_name, now>>

\* the clock advances by one second
Tick ==
    /\ clock < MaxClock
    /\ clock' = clock + 1
    /\ UNCHANGED <<queue, run_dirs, active, r_pc, r_job, r_id, r_log>>

\* the client's `submit` has synced a job's directory into queue/
Enqueue(job) ==
    /\ job \notin queue
    /\ queue' = queue \cup {job}
    /\ UNCHANGED <<clock, run_dirs, active, r_pc, r_job, r_id, r_log>>

\* run(job_name) up to the call of move_queue_to_runs: Exit(1) when the job
\* has no queue directory.
RunCall(p, job) ==
    /\ r_pc[p] \in {"idle", "exit1", "submitted", "copy_exists", "link_exists"}
    /\ Len(r_log) < MaxRuns
    /\ r_job' = [r_job EXCEPT ![p] = job]
    /\ r_id' = [r_id EXCEPT ![p] = NoRun]
    /\ r_pc' = [r_pc EXCEPT ![p] = IF job \in queue THEN "move" ELSE "exit1"]
    /\ UNCHANGED <<clock, queue, run_dirs, active, r_log>>

\* move_queue_to_runs, first part: generate_run_id and shutil.copytree, which
\* raises FileExistsError when the run directory exists.
MoveCopy(p) ==
    /\ r_pc[p] = "move"
    /\ LET run_id == generate_run_id(r_job[p], clock)
       IN  /\ r_id' = [r_id EXCEPT ![p] = run_id]
           /\ r_log' = Append(r_log, run_id)
           /\ IF run_id \in run_dirs
              THEN /\ r_pc' = [r_pc EXCEPT ![p] = "copy_exists"]
                   /\ UNCHANGED run_dirs
              ELSE /\ r_pc' = [r_pc EXCEPT ![p] = "link"]
                   /\ run_dirs' = run_dirs \cup {run_id}
    /\ UNCHANGED <<clock, queue, active, r_job>>

\* `if active_link.exists() or active_link.is_symlink(): active_link.unlink()`
MoveUnlink(p) ==
    /\ r_pc[p] = "link"
    /\ active' = [active EXCEPT ![r_job[p]] = NoRun]
    /\ r_pc' = [r_pc EXCEPT ![p] = "unlinked"]
    /\ UNCHANGED <<clock, queue, run_dirs, r_job, r_id, r_log>>

\* active_link.symlink_to(run_dir): FileExistsError when another invocation
\* has created the link in between.
MoveSymlink(p) ==
    /\ r_pc[p] = "unlinked"
    /\ IF active[r_job[p]] # NoRun
       THEN /\ r_pc' = [r_pc EXCEPT ![p] = "link_exists"]
            /\ UNCHANGED active
       ELSE /\ r_pc' = [r_pc EXCEPT ![p] = "sbatch"]
            /\ active' = [active EXCEPT ![r_job[p]] = r_id[p]]
    /\ UNCHANGED <<clock, queue, run_dirs, r_job, r_id, r_log>>

\* local.run(f"sbatch {script_path}") and the two checks of its result
RunSbatch(p, ok, output) ==
    /\ r_pc[p] = "sbatch"
    /\ r_pc' = [r_pc EXCEPT ![p] =
                  IF ok /\ HasSentinel(output) THEN "submitted" ELSE "exit1"]
    /\ UNCHANGED <<clock, queue, run_dirs, active, r_job, r_id, r_log>>

InitRun ==
    /\ clock = 0
    /\ queue = {}
    /\ run_dirs = {}
    /\ active = [j \in RunJobs |-> NoRun]
    /\ r_pc = [p \in RunProcs |-> "idle"]
    /\ r_job = [p \in RunProcs |-> ""]
    /\ r_id = [p \in RunProcs |-> NoRun]
    /\ r_log = <<>>

(***************************************************************************)
(* The submit command and the commands that write a job's record around    *)
(* it.  They run as the store's process, one command at a time.            *)
(***************************************************************************)
Submitter == "p1"

\* SlurmBackend.submit returns (does not raise RuntimeError)
BackendSubmitOkMutant(ok, output) == ok

BackendSubmitOk(ok, output) == ok /\ HasSentinel(output)

\* slurm_job_id = output.split()[-1]
ParsedJobId(output) == Last(output)

\* submit, up to the call of slurm_backend.submit
SubmitCall(name) ==
    /\ sub_pc \in {"idle", "failed", "recorded"}
    /\ s_pc[Submitter] = "idle"
    /\ sub_pc' = "sbatch"
    /\ sub_name' = name
    /\ UNCHANGED <<sub_ok_names, storeVars>>

\* slurm_backend.submit(script_path): a RuntimeError (or the IndexError of
\* split()[-1] on an empty output) ends the command with Exit(1); otherwise
\* create_job_record builds the record with the parsed scheduler id (its
\* save_job follows as SaveOpen, SaveDump).
SubmitSbatch(ok, output) ==
    /\ sub_pc = "sbatch"
    /\ sub_ok_names' = IF ok /\ HasSentinel(output)
                       THEN sub_ok_names \cup {sub_name} ELSE sub_ok_names
    /\ IF BackendSubmitOk(ok, output) /\ output # <<>>
       THEN /\ sub_pc' = "recorded"
            /\ CreateCall(Submitter, sub_name, ParsedJobId(output))
       ELSE /\ sub_pc' = "failed"
            /\ UNCHANGED storeVars
    /\ UNCHANGED sub_name

\* slurmit's client-side submit: the record of a queued job, no scheduler id
QueueRecord(name) ==
    /\ sub_pc # "sbatch"
    /\ CreateCall(Submitter, name, "none")
    /\ sub_pc' = "idle"
    /\ UNCHANGED <<sub_name, sub_ok_names>>

\* the status command: update_job_status(record.name, state) for a record
\* that has a scheduler id and for which the scheduler returned a state
StatusRefresh(name, state) ==
    /\ sub_pc # "sbatch"
    /\ LET content == files[get_job_file(name)]
       IN  /\ content.kind = "whole"
           /\ content.rec.slurm_job_id # "none"
           /\ UpdateRead(Submitter, content.rec.name, state, "none")
    /\ sub_pc' = "idle"
    /\ UNCHANGED <<sub_name, sub_ok_names>>

(***************************************************************************)
(* SlurmBackend.submit on its own: every sbatch output up to MaxTokens     *)
(* whitespace-separated tokens.                                            *)
(***************************************************************************)
Tokens == {"Submitted", "batch", "job", "88421", "sbatch:"}

SbatchOutputs == UNION {[1..n -> Tokens] : n \in 0..MaxTokens}

NoSubmit == [outcome |-> "none", slurm_job_id |-> "none"]

\* result = run(f"sbatch {script_path}", warn=True), the two checks, the parse;
\* one call per backend object
BackendSubmit(ok, output) ==
    /\ b_result = NoSubmit
    /\ b_output' = output
    /\ b_result' = IF ~ok
                   THEN [outcome |-> "RuntimeError", slurm_job_id |-> "none"]
                   ELSE IF ~HasSentinel(output)
                   THEN [outcome |-> "RuntimeError", slurm_job_id |-> "none"]
                   ELSE [outcome |-> "returned", slurm_job_id |-> ParsedJobId(output)]

InitParse ==
    /\ b_output = <<>>
    /\ b_result = NoSubmit

(***************************************************************************)
(* StatusMonitor.get_status: _get_from_squeue, then _get_from_sacct when   *)
(* the first returned None.  The scheduler's two sources each print a      *)
(* state string for the job or nothing.                                    *)
(***************************************************************************)
NoStatus == [source |-> "none", state |-> "none"]

\* `if not result.ok or not result.stdout.strip(): return None` and
\* `if len(parts) < 7: return None`
SourceYieldsMutant(ok, output, short) == FALSE

SourceYields(ok, output, short) == ok /\ output # NoOutput /\ ~short

\* get_status(slurm_job_id) is called while the scheduler holds these states
GetStatusCall(live, hist) ==
    /\ m_pc = "idle"
    /\ m_pc' = "squeue"
    /\ m_live' = live
    /\ m_hist' = hist
    /\ m_asked' = <<>>
    /\ m_status' = NoStatus
    /\ UNCHANGED m_sq

\* status = self._get_from_squeue(slurm_job_id); `if status: return status`
SqueueQuery(ok, short) ==
    /\ m_pc = "squeue"
    /\ m_sq' = [ok |-> ok, short |-> short]
    /\ m_asked' = Append(m_asked, "squeue")
    /\ IF SourceYields(ok, m_live, short)
       THEN /\ m_status' = [source |-> "squeue", state |-> from_string(m_live)]
            /\ m_pc' = "returned"
       ELSE /\ m_pc' = "sacct"
            /\ UNCHANGED m_status
    /\ UNCHANGED <<m_live, m_hist>>

\* return self._get_from_sacct(slurm_job_id)
SacctQuery(ok, short) ==
    /\ m_pc = "sacct"
    /\ m_asked' = Append(m_asked, "sacct")
    /\ m_status' = IF SourceYields(ok, m_hist, short)
                   THEN [source |-> "sacct", state |-> from_string(m_hist)]
                   ELSE NoStatus
    /\ m_pc' = "returned"
    /\ UNCHANGED <<m_live, m_hist, m_sq>>

InitStatus ==
    /\ m_pc = "idle"
    /\ m_live = NoOutput
    /\ m_hist = NoOutput
    /\ m_sq = [ok |-> FALSE, short |-> FALSE]
    /\ m_asked = <<>>
    /\ m_status = NoStatus

(***************************************************************************)
(* list_jobs with the order it reads the files in: sorted by st_mtime,     *)
(* newest first, cut to job_files[:limit], invalid files skipped.          *)
(***************************************************************************)
ListFiles == {"f1", "f2", "f3"}

Limits == -1..3

NoFile == [mtime |-> -1, valid |-> FALSE]

NoFound == [slurm_job_id |-> "none", result |-> "none"]

\* Python's seq[:limit]
Slice(seq, limit) ==
    IF limit >= 0
    THEN SubSeq(seq, 1, IF limit < Len(seq) THEN limit ELSE Len(seq))
    ELSE SubSeq(seq, 1, IF Len(seq) + limit > 0 THEN Len(seq) + limit ELSE 0)

\* sorted(jobs_dir.glob("*.json"), key=st_mtime, reverse=True): every order
\* of the files present that does not put an older file before a newer one
\* (files of equal mtime keep the glob's order, which is the file system's)
SortedByMtime(dir) ==
    LET present == {f \in ListFiles : dir[f] # NoFile}
    IN  {order \in [1..Cardinality(present) -> present] :
            /\ \A i, j \in 1..Cardinality(present) : i # j => order[i] # order[j]
            /\ \A i, j \in 1..Cardinality(present) :
                  i < j => dir[order[i]].mtime >= dir[order[j]].mtime}

\* the try/except of the loop: a file that does not parse is skipped
ValidOnlyMutant(dir, order) == order

ValidOnly(dir, order) ==
    LET Test(f) == dir[f].valid
    IN  SelectSeq(order, Test)

\* time passes
ListTick ==
    /\ l_clock < MaxMtime
    /\ l_clock' = l_clock + 1
    /\ UNCHANGED <<l_dir, l_limit, l_result, l_found>>

\* save_job writes a record file (well-formed, or cut short); the listing
\* kept is one of the directory as it is
ListWrite(f, valid) ==
    /\ l_dir' = [l_dir EXCEPT ![f] = [mtime |-> l_clock, valid |-> valid]]
    /\ l_limit' = 0
    /\ l_result' = <<>>
    /\ l_found' = NoFound
    /\ UNCHANGED l_clock

ListJobs(limit, job_files) ==
    /\ l_limit' = limit
    /\ l_result' = ValidOnly(l_dir, Slice(job_files, limit))
    /\ UNCHANGED <<l_clock, l_dir, l_found>>

\* find_job_by_slurm_id: the first record of list_jobs(limit=100) that
\* carries the id.  The record in file f carries the scheduler id f.
FindLimit == 100

FindBySlurmId(slurm_job_id, job_files) ==
    LET records == ValidOnly(l_dir, Slice(job_files, FindLimit))
        Match(f) == f = slurm_job_id
        hits == SelectSeq(records, Match)
    IN  /\ l_found' = [slurm_job_id |-> slurm_job_id,
                       result |-> IF hits # <<>> THEN hits[1] ELSE "none"]
        /\ UNCHANGED <<l_clock, l_dir, l_limit, l_result>>

InitList ==
    /\ l_clock = 0
    /\ l_dir = [f \in ListFiles |-> NoFile]
    /\ l_limit = 0
    /\ l_result = <<>>
    /\ l_found = NoFound

(***************************************************************************)
(* The node parsers.  A CPU field is the sequence of its "/"-separated     *)
(* parts; scontrol's output is what its Gres= and GresUsed= tokens hold.   *)
(***************************************************************************)
Monitors == {"remote", "local"}

Parts == {"0", "1", "2", "x", ""}

CpuFields == UNION {[1..n -> Parts] : n \in 1..MaxParts}

\* int(part): the number, ValueError for anything else
IsInt(part) == part \in {"0", "1", "2"}

ToInt(part) == CASE part = "0" -> 0 [] part = "1" -> 1 [] part = "2" -> 2

\* NodeMonitor._parse_cpu_state, and the inline parse of
\* LocalNodeMonitor.get_nodes, which has no two-part branch
parse_cpu_state(monitor, parts) ==
    IF Len(parts) >= 4
    THEN IF IsInt(parts[1]) /\ IsInt(parts[4])
         THEN <<ToInt(parts[1]), ToInt(parts[4])>>
         ELSE <<0, 0>>
    ELSE IF Len(parts) = 2 /\ monitor = "remote"
    THEN IF IsInt(parts[1]) /\ IsInt(parts[2])
         THEN <<ToInt(parts[1]), ToInt(parts[2])>>
         ELSE <<0, 0>>
    ELSE <<0, 0>>

\* a Gres= or GresUsed= token: absent, "gpu:<type>:<n>" or "gpu:<n>"
NoToken == [form |-> "absent", count |-> 0]

GresTokens == {NoToken} \cup [form : {"typed", "plain"}, count : 0..MaxGpu]

GresUsedTokens == {NoToken} \cup [form : {"typed", "plain"}, count : 0..(MaxGpu + 1)]

NoGpu == [kind |-> "None", gpu_type |-> "", total |-> 0, used |-> 0, free |-> 0]

\* _get_gpu_info and _get_gpu_info_local: the two regular expressions for
\* the typed form, then the two for the plain form
get_gpu_info(ok, gres, gres_used) ==
    IF ~ok THEN NoGpu
    ELSE IF gres.form = "typed"
    THEN LET used == IF gres_used.form = "typed" THEN gres_used.count ELSE 0
         IN  [kind |-> "GPUInfo", gpu_type |-> "a100", total |-> gres.count,
              used |-> used, free |-> gres.count - used]
    ELSE IF gres.form = "plain"
    THEN LET used == IF gres_used.form = "plain" THEN gres_used.count ELSE 0
         IN  [kind |-> "GPUInfo", gpu_type |-> "gpu", total |-> gres.count,
              used |-> used, free |-> gres.count - used]
    ELSE NoGpu

NoCall == [op |-> "none"]

\* one inventory line's CPU field is parsed
ParseCpu(monitor, parts) ==
    /\ n_call = NoCall
    /\ n_call' = [op |-> "cpu", monitor |-> monitor, parts |-> parts,
                  result |-> parse_cpu_state(monitor, parts)]

\* one node's GPU data is queried and parsed
GetGpuInfo(monitor, ok, gres, gres_used) ==
    /\ n_call = NoCall
    /\ n_call' = [op |-> "gpu", monitor |-> monitor, ok |-> ok, gres |-> gres,
                  gres_used |-> gres_used, result |-> get_gpu_info(ok, gres, gres_used)]

\* One line of `sinfo -N -h -o "%N|%P|%T|%C|%m"`: blank, with fewer than
\* five fields, or whole; the node name may come with blanks around it.
NodeNames == {"n1", "n2"}

Partitions == {"pa", "pb"}

InventoryLines ==
    {[kind |-> "blank", name |-> "", padded |-> FALSE, partition |-> ""]}
      \cup [kind : {"short"}, name : NodeNames, padded : {FALSE}, partition : {""}]
      \cup [kind : {"full"}, name : NodeNames, padded : BOOLEAN, partition : Partitions]

Inventories == UNION {[1..n -> InventoryLines] : n \in 0..MaxLines}

\* `if not line.strip(): continue` and `if len(parts) < 5: continue`
WellFormedMutant(line) == line.kind # "blank"

WellFormed(line) == line.kind = "full"

\* the loop of get_nodes from line i on: node_name = parts[0].strip(), the
\* seen_nodes test, nodes.append(NodeInfo(...))
RECURSIVE NodesFrom(_, _, _)
NodesFrom(lines, i, seen_nodes) ==
    IF i > Len(lines) THEN <<>>
    ELSE IF ~WellFormed(lines[i]) THEN NodesFrom(lines, i + 1, seen_nodes)
    ELSE IF lines[i].name \in seen_nodes THEN NodesFrom(lines, i + 1, seen_nodes)
    ELSE <<[name |-> lines[i].name, partition |-> lines[i].partition]>>
            \o NodesFrom(lines, i + 1, seen_nodes \cup {lines[i].name})

\* get_nodes on the output of one sinfo query
GetNodes(monitor, lines) ==
    /\ n_call = NoCall
    /\ n_call' = [op |-> "nodes", monitor |-> monitor, lines |-> lines,
                  result |-> NodesFrom(lines, 1, {})]

InitNodes ==
    n_call = NoCall

InitSubmit ==
    /\ sub_pc = "idle"
    /\ sub_name = <<>>
    /\ sub_ok_names = {}

(***************************************************************************)
(* Specifications.                                                         *)
(***************************************************************************)
(***************************************************************************)
(* The status and cancel commands on the record of one job.                *)
(***************************************************************************)
\* the values the code writes into `status`
StoredStatuses == {"QUEUED", "SUBMITTED"} \cup JobStates

NoFileYet == [kind |-> "absent", status |-> "", slurm_job_id |-> "none"]

\* what squeue prints for the job: nothing, or a live state
LiveOutputs ==
    {NoOutput} \cup {r \in StateStrings : r.core \in {"PENDING", "RUNNING"}
                                          /\ ~r.lower /\ ~r.padded /\ ~r.suffix}

\* what sacct prints for the job: nothing, a final state, or
\* "CANCELLED by <uid>"
HistOutputs ==
    {NoOutput} \cup {r \in StateStrings : r.core \in {"COMPLETED", "CANCELLED"}
                                          /\ ~r.lower /\ ~r.padded}

\* StatusMonitor.get_status: the live queue first, then the accounting
\* history, None ("none") when neither has the job
get_status(live, hist) ==
    IF SourceYields(TRUE, live, FALSE) THEN from_string(live)
    ELSE IF SourceYields(TRUE, hist, FALSE) THEN from_string(hist)
    ELSE "none"

NoCommand == [op |-> "none", before |-> NoFileYet, confirm |-> "none",
              connect |-> "none", scancel |-> "none", state |-> "none",
              shown |-> "none", code |-> 0]

\* `if result.ok:` after `with SSHClient(connection) as ssh: ssh.run(...)`
CancelMarksMutant(connect_ok, exit_ok) == connect_ok

CancelMarks(connect_ok, exit_ok) == connect_ok /\ exit_ok

\* `if slurm_status:` inside the try block
StatusWritesMutant(connect_ok, state) == connect_ok

StatusWrites(connect_ok, state) == connect_ok /\ state # "none"

\* update_job_status(name, status) on the one record: False without a file
update_status(file, value) ==
    IF file.kind = "whole" THEN [file EXCEPT !.status = value] ELSE file

\* create_job_record: a new QUEUED record saved under the name, over any
\* record the name already has
CreateRecord ==
    /\ k_file' = [kind |-> "whole", status |-> "QUEUED", slurm_job_id |-> "none"]
    /\ k_last' = [NoCommand EXCEPT !.op = "create", !.before = k_file]

\* update_job_for_run: the record gets its scheduler id and SUBMITTED
UpdateForRun ==
    /\ k_file' = IF k_file.kind = "whole"
                 THEN [k_file EXCEPT !.status = "SUBMITTED", !.slurm_job_id = "101"]
                 ELSE k_file
    /\ k_last' = [NoCommand EXCEPT !.op = "run", !.before = k_file]

\* cancel: the record is looked up, the user is asked unless --force, the
\* connection is opened, scancel runs with warn=True, and the record is
\* written when it exited 0.  `keyed` tells whether the identifier handed to
\* update_job_status (record.name, record.local_id in myjob) names the
\* record's file.
CancelCommand(force, confirm, connect_ok, exit_ok, keyed) ==
    LET record == k_file
        met == [NoCommand EXCEPT !.op = "cancel", !.before = k_file]
    IN  IF record.kind # "whole"
        THEN /\ k_last' = [met EXCEPT !.code = 1]
             /\ UNCHANGED k_file
        ELSE IF record.slurm_job_id = "none"
        THEN /\ k_last' = [met EXCEPT !.code = 1]
             /\ UNCHANGED k_file
        ELSE IF ~force /\ ~confirm
        THEN /\ k_last' = [met EXCEPT !.confirm = "declined", !.code = 0]
             /\ UNCHANGED k_file
        ELSE LET asked == [met EXCEPT !.confirm = IF force THEN "forced" ELSE "accepted"]
             IN  IF ~connect_ok
                 THEN /\ k_last' = [asked EXCEPT !.connect = "failed", !.code = 1]
                      /\ UNCHANGED k_file
                 ELSE IF CancelMarks(connect_ok, exit_ok)
                 THEN /\ k_last' = [asked EXCEPT !.connect = "ok",
                                       !.scancel = IF exit_ok THEN "exit0" ELSE "failed",
                                       !.code = 0]
                      /\ k_file' = IF keyed THEN update_status(k_file, "CANCELLED")
                                   ELSE k_file
                 ELSE /\ k_last' = [asked EXCEPT !.connect = "ok", !.scancel = "failed",
                                       !.code = 1]
                      /\ UNCHANGED k_file

\* status: the record is looked up and printed; with a scheduler id the
\* scheduler is asked and the record written with the state it gave.
StatusCommand(connect_ok, live, hist) ==
    LET record == k_file
        met == [NoCommand EXCEPT !.op = "status", !.before = k_file]
        state == get_status(live, hist)
    IN  IF record.kind # "whole"
        THEN /\ k_last' = [met EXCEPT !.code = 1]
             /\ UNCHANGED k_file
        ELSE IF record.slurm_job_id = "none"
        THEN /\ k_last' = [met EXCEPT !.shown = "last_known"]
             /\ UNCHANGED k_file
        ELSE IF ~connect_ok
        THEN /\ k_last' = [met EXCEPT !.connect = "failed", !.shown = "last_known"]
             /\ UNCHANGED k_file
        ELSE IF StatusWrites(connect_ok, state)
        THEN /\ k_last' = [met EXCEPT !.connect = "ok", !.state = state,
                              !.shown = "scheduler"]
             /\ k_file' = update_status(k_file, IF state = "none" THEN "None" ELSE state)
        ELSE /\ k_last' = [met EXCEPT !.connect = "ok", !.shown = "not_found"]
             /\ UNCHANGED k_file

InitCmd ==
    /\ k_file = NoFileYet
    /\ k_last = NoCommand

(***************************************************************************)
(* wait_for_completion with follow_logs: the loop body queries the state,  *)
(* tests it, reads the log file from log_offset, and sleeps.               *)
(***************************************************************************)
\* the job writes a byte to its log file; it writes no more once its
\* terminal state has been observed
WaitLogAppend(b) ==
    /\ v_pc # "returned"
    /\ Len(v_log) < MaxLog
    /\ v_log' = Append(v_log, b)
    /\ UNCHANGED <<v_pc, follow_logs, log_offset, v_printed>>

WaitLogCall(follow) ==
    /\ v_pc = "idle"
    /\ v_pc' = "poll"
    /\ follow_logs' = follow
    /\ UNCHANGED <<v_log, log_offset, v_printed>>

\* One pass of the loop body: the query, `break` on a terminal state, else
\* the read of the log file (f.seek(log_offset), f.read(), console.print,
\* log_offset = f.tell(); an exception is passed over).
WaitLogPoll(terminal, read_ok) ==
    /\ v_pc = "poll"
    /\ IF terminal
       THEN /\ v_pc' = "returned"
            /\ UNCHANGED <<log_offset, v_printed>>
       ELSE /\ v_pc' = "sleep"
            /\ LET new_content == SubSeq(v_log, log_offset + 1, Len(v_log))
               IN  IF follow_logs /\ v_log # <<>> /\ read_ok /\ new_content # <<>>
                   THEN /\ v_printed' = v_printed \o new_content
                        /\ log_offset' = Len(v_log)
                   ELSE UNCHANGED <<log_offset, v_printed>>
    /\ UNCHANGED <<follow_logs, v_log>>

\* time.sleep(poll_interval)
WaitLogSleep ==
    /\ v_pc = "sleep"
    /\ v_pc' = "poll"
    /\ UNCHANGED <<follow_logs, v_log, log_offset, v_printed>>

InitWaitLog ==
    /\ v_pc = "idle"
    /\ follow_logs = FALSE
    /\ v_log = <<>>
    /\ log_offset = 0
    /\ v_printed = <<>>

Init == InitWaitLog /\ InitCmd /\ InitConnect /\ InitSession /\ InitTail /\ InitParse /\ InitStatus /\ InitList /\ InitNodes /\ InitFollow /\ InitWait /\ InitStore /\ InitRun /\ InitSubmit

NextConnect ==
    \/ Connect /\ UNCHANGED <<sessVars, followVars, waitVars, storeVars, runVars, submitVars, tailVars, parseVars, statusVars, listVars, nodeVars, cmdVars, waitLogVars>>
    \/ AttemptOk /\ UNCHANGED <<sessVars, followVars, waitVars, storeVars, runVars, submitVars, tailVars, parseVars, statusVars, listVars, nodeVars, cmdVars, waitLogVars>>
    \/ AttemptRaises /\ UNCHANGED <<sessVars, followVars, waitVars, storeVars, runVars, submitVars, tailVars, parseVars, statusVars, listVars, nodeVars, cmdVars, waitLogVars>>
    \/ BackoffSleep /\ UNCHANGED <<sessVars, followVars, waitVars, storeVars, runVars, submitVars, tailVars, parseVars, statusVars, listVars, nodeVars, cmdVars, waitLogVars>>
    \/ Close /\ UNCHANGED <<sessVars, followVars, waitVars, storeVars, runVars, submitVars, tailVars, parseVars, statusVars, listVars, nodeVars, cmdVars, waitLogVars>>

\* One client in use: explicit connects outside a `with` block, blocks,
\* commands and closes.
NextSession ==
    \/ (c_with # "in" /\ ConnectCall(DefaultRetries))
          /\ UNCHANGED <<sessVars, followVars, waitVars, storeVars, runVars, submitVars, tailVars, parseVars, statusVars, listVars, nodeVars, cmdVars, waitLogVars>>
    \/ AccessConnection /\ UNCHANGED <<followVars, waitVars, storeVars, runVars, submitVars, tailVars, parseVars, statusVars, listVars, nodeVars, cmdVars, waitLogVars>>
    \/ AttemptOk /\ UNCHANGED <<sessVars, followVars, waitVars, storeVars, runVars, submitVars, tailVars, parseVars, statusVars, listVars, nodeVars, cmdVars, waitLogVars>>
    \/ (\E e \in SessionErrors : AttemptFail(e))
          /\ UNCHANGED <<sessVars, followVars, waitVars, storeVars, runVars, submitVars, tailVars, parseVars, statusVars, listVars, nodeVars, cmdVars, waitLogVars>>
    \/ BackoffSleep /\ UNCHANGED <<sessVars, followVars, waitVars, storeVars, runVars, submitVars, tailVars, parseVars, statusVars, listVars, nodeVars, cmdVars, waitLogVars>>
    \/ CloseCall /\ UNCHANGED <<followVars, waitVars, storeVars, runVars, submitVars, tailVars, parseVars, statusVars, listVars, nodeVars, cmdVars, waitLogVars>>
    \/ WithEnter /\ UNCHANGED <<followVars, waitVars, storeVars, runVars, submitVars, tailVars, parseVars, statusVars, listVars, nodeVars, cmdVars, waitLogVars>>
    \/ WithEnterRaised /\ UNCHANGED <<followVars, waitVars, storeVars, runVars, submitVars, tailVars, parseVars, statusVars, listVars, nodeVars, cmdVars, waitLogVars>>
    \/ (\E how \in BodyEnds : WithExit(how))
          /\ UNCHANGED <<followVars, waitVars, storeVars, runVars, submitVars, tailVars, parseVars, statusVars, listVars, nodeVars, cmdVars, waitLogVars>>
    \/ (\E warn \in BOOLEAN, exit \in ExitCodes, stderr \in Stderrs : Run(warn, exit, stderr))
          /\ UNCHANGED <<followVars, waitVars, storeVars, runVars, submitVars, tailVars, parseVars, statusVars, listVars, nodeVars, cmdVars, waitLogVars>>
    \/ (\E exit \in ExitCodes, stderr \in Stderrs : RunChecked(exit, stderr))
          /\ UNCHANGED <<followVars, waitVars, storeVars, runVars, submitVars, tailVars, parseVars, statusVars, listVars, nodeVars, cmdVars, waitLogVars>>

SpecSession == Init /\ [][NextSession]_vars

\* Connection.open() is given a timeout and time.sleep returns: a started
\* call keeps taking steps.
SpecConnect == Init /\ [][NextConnect]_vars /\ WF_connVars(ConnectStep)

NextFollow ==
    \/ (\E b \in LogBytes : LogAppend(b)) /\ UNCHANGED <<connVars, sessVars, waitVars, storeVars, runVars, submitVars, tailVars, parseVars, statusVars, listVars, nodeVars, cmdVars, waitLogVars>>
    \/ (\E ok \in BOOLEAN : FollowInitialRead(ok)) /\ UNCHANGED <<connVars, sessVars, waitVars, storeVars, runVars, submitVars, tailVars, parseVars, statusVars, listVars, nodeVars, cmdVars, waitLogVars>>
    \/ (\E ok \in BOOLEAN : FollowInitialStat(ok)) /\ UNCHANGED <<connVars, sessVars, waitVars, storeVars, runVars, submitVars, tailVars, parseVars, statusVars, listVars, nodeVars, cmdVars, waitLogVars>>
    \/ (\E ok \in BOOLEAN : FollowPollStat(ok)) /\ UNCHANGED <<connVars, sessVars, waitVars, storeVars, runVars, submitVars, tailVars, parseVars, statusVars, listVars, nodeVars, cmdVars, waitLogVars>>
    \/ (\E ok \in BOOLEAN : FollowDeltaRead(ok)) /\ UNCHANGED <<connVars, sessVars, waitVars, storeVars, runVars, submitVars, tailVars, parseVars, statusVars, listVars, nodeVars, cmdVars, waitLogVars>>

SpecFollow == Init /\ [][NextFollow]_vars

\* tail_logs with `yield from self._follow_log(...)` in follow mode, called
\* as the logs command calls it: inside `with SSHClient(connection) as ssh`
NextTail ==
    \/ (t_pc = "idle" /\ connection = "none" /\ WithEnter)
          /\ UNCHANGED <<connection, c_orphans>>
          /\ UNCHANGED <<followVars, waitVars, storeVars, runVars, submitVars, tailVars, parseVars, statusVars, listVars, nodeVars, cmdVars, waitLogVars>>
    \/ AttemptOk
          /\ UNCHANGED <<sessVars, followVars, waitVars, storeVars, runVars, submitVars, tailVars, parseVars, statusVars, listVars, nodeVars, cmdVars, waitLogVars>>
    \/ (\E how \in CancelKinds : TailCancel(how))
          /\ UNCHANGED <<sessVars, followVars, waitVars, storeVars, runVars, submitVars, parseVars, statusVars, listVars, nodeVars, cmdVars, waitLogVars>>
    \/ (t_pc \in CancelKinds /\ Run(TRUE, 0, ""))
          /\ UNCHANGED <<followVars, waitVars, storeVars, runVars, submitVars, tailVars, parseVars, statusVars, listVars, nodeVars, cmdVars, waitLogVars>>
    \/ (t_pc \in CancelKinds \cup {"ended"} /\ \E how \in BodyEnds : WithExit(how))
          /\ UNCHANGED <<followVars, waitVars, storeVars, runVars, submitVars, tailVars, parseVars, statusVars, listVars, nodeVars, cmdVars, waitLogVars>>
    \/ (connection = "open" /\ c_with = "in"
            /\ \E follow \in BOOLEAN, stream \in Streams : TailCall(follow, stream))
          /\ UNCHANGED <<connVars, sessVars, followVars, waitVars, storeVars, runVars, submitVars, parseVars, statusVars, listVars, nodeVars, cmdVars, waitLogVars>>
    \/ (\E ext \in LogExts : LogCreate(ext))
          /\ UNCHANGED <<connVars, sessVars, followVars, waitVars, storeVars, runVars, submitVars, parseVars, statusVars, listVars, nodeVars, cmdVars, waitLogVars>>
    \/ (\E ok \in BOOLEAN : TailResolve(ok))
          /\ UNCHANGED <<connVars, sessVars, followVars, waitVars, storeVars, runVars, submitVars, parseVars, statusVars, listVars, nodeVars, cmdVars, waitLogVars>>
    \/ (\E ok \in BOOLEAN : TailOnce(ok))
          /\ UNCHANGED <<connVars, sessVars, followVars, waitVars, storeVars, runVars, submitVars, parseVars, statusVars, listVars, nodeVars, cmdVars, waitLogVars>>
    \/ (t_files # {} /\ \E b \in LogBytes : LogAppend(b))
          /\ UNCHANGED <<connVars, sessVars, waitVars, storeVars, runVars, submitVars, tailVars, parseVars, statusVars, listVars, nodeVars, cmdVars, waitLogVars>>
    \/ (t_pc = "following" /\ \E ok \in BOOLEAN : FollowInitialRead(ok))
          /\ UNCHANGED <<connVars, sessVars, waitVars, storeVars, runVars, submitVars, tailVars, parseVars, statusVars, listVars, nodeVars, cmdVars, waitLogVars>>
    \/ (t_pc = "following" /\ \E ok \in BOOLEAN : FollowInitialStat(ok))
          /\ UNCHANGED <<connVars, sessVars, waitVars, storeVars, runVars, submitVars, tailVars, parseVars, statusVars, listVars, nodeVars, cmdVars, waitLogVars>>
    \/ (t_pc = "following" /\ \E ok \in BOOLEAN : FollowPollStat(ok))
          /\ UNCHANGED <<connVars, sessVars, waitVars, storeVars, runVars, submitVars, tailVars, parseVars, statusVars, listVars, nodeVars, cmdVars, waitLogVars>>
    \/ (t_pc = "following" /\ \E ok \in BOOLEAN : FollowDeltaRead(ok))
          /\ UNCHANGED <<connVars, sessVars, waitVars, storeVars, runVars, submitVars, tailVars, parseVars, statusVars, listVars, nodeVars, cmdVars, waitLogVars>>

\* every ssh.run of tail_logs returns: a started call keeps taking steps
SpecTail == Init /\ [][NextTail]_vars /\ WF_tailVars(TailStep)

\* get_logs and tail_logs called one after the other while the job's log
\* files appear; what runs inside follow mode is left to SpecTail
NextLogs ==
    \/ (\E ext \in LogExts : LogCreate(ext))
          /\ UNCHANGED <<connVars, sessVars, followVars, waitVars, storeVars, runVars, submitVars, parseVars, statusVars, listVars, nodeVars, cmdVars, waitLogVars>>
    \/ (\E lo, le, ro, re \in BOOLEAN : GetLogs(lo, le, ro, re))
          /\ UNCHANGED <<connVars, sessVars, followVars, waitVars, storeVars, runVars, submitVars, parseVars, statusVars, listVars, nodeVars, cmdVars, waitLogVars>>
    \/ (\E follow \in BOOLEAN, stream \in Streams : TailCall(follow, stream))
          /\ UNCHANGED <<connVars, sessVars, followVars, waitVars, storeVars, runVars, submitVars, parseVars, statusVars, listVars, nodeVars, cmdVars, waitLogVars>>
    \/ (\E ok \in BOOLEAN : TailResolve(ok))
          /\ UNCHANGED <<connVars, sessVars, followVars, waitVars, storeVars, runVars, submitVars, parseVars, statusVars, listVars, nodeVars, cmdVars, waitLogVars>>
    \/ (\E ok \in BOOLEAN : TailOnce(ok))
          /\ UNCHANGED <<connVars, sessVars, followVars, waitVars, storeVars, runVars, submitVars, parseVars, statusVars, listVars, nodeVars, cmdVars, waitLogVars>>

SpecLogs == Init /\ [][NextLogs]_vars

NextWait ==
    \/ WaitCall /\ UNCHANGED <<connVars, sessVars, followVars, storeVars, runVars, submitVars, tailVars, parseVars, statusVars, listVars, nodeVars, cmdVars, waitLogVars>>
    \/ WaitPollAny /\ UNCHANGED <<connVars, sessVars, followVars, storeVars, runVars, submitVars, tailVars, parseVars, statusVars, listVars, nodeVars, cmdVars, waitLogVars>>
    \/ WaitSleep /\ UNCHANGED <<connVars, sessVars, followVars, storeVars, runVars, submitVars, tailVars, parseVars, statusVars, listVars, nodeVars, cmdVars, waitLogVars>>

SpecWait == Init /\ [][NextWait]_vars

NextStore ==
    \/ (\E p \in Writers, name \in JobNames, id \in SlurmIds : CreateCall(p, name, id))
          /\ UNCHANGED <<connVars, sessVars, followVars, waitVars, runVars, submitVars, tailVars, parseVars, statusVars, listVars, nodeVars, cmdVars, waitLogVars>>
    \/ (\E p \in Writers, name \in JobNames, status \in Statuses, id \in SlurmIds :
            UpdateRead(p, name, status, id))
          /\ UNCHANGED <<connVars, sessVars, followVars, waitVars, runVars, submitVars, tailVars, parseVars, statusVars, listVars, nodeVars, cmdVars, waitLogVars>>
    \/ (\E p \in Writers : SaveOpen(p)) /\ UNCHANGED <<connVars, sessVars, followVars, waitVars, runVars, submitVars, tailVars, parseVars, statusVars, listVars, nodeVars, cmdVars, waitLogVars>>
    \/ (\E p \in Writers : SaveDump(p)) /\ UNCHANGED <<connVars, sessVars, followVars, waitVars, runVars, submitVars, tailVars, parseVars, statusVars, listVars, nodeVars, cmdVars, waitLogVars>>
    \/ (\E p \in Writers, flushed \in BOOLEAN : Interrupt(p, flushed))
          /\ UNCHANGED <<connVars, sessVars, followVars, waitVars, runVars, submitVars, tailVars, parseVars, statusVars, listVars, nodeVars, cmdVars, waitLogVars>>
    \/ (\E p \in Writers, name \in JobNames : DeleteJob(p, name))
          /\ UNCHANGED <<connVars, sessVars, followVars, waitVars, runVars, submitVars, tailVars, parseVars, statusVars, listVars, nodeVars, cmdVars, waitLogVars>>
    \/ (\E prefix \in Prefixes : Lookup(prefix))
          /\ UNCHANGED <<connVars, sessVars, followVars, waitVars, runVars, submitVars, tailVars, parseVars, statusVars, listVars, nodeVars, cmdVars, waitLogVars>>
    \/ (\E job_name \in CmdInputs : ResolveJob(job_name))
          /\ UNCHANGED <<connVars, sessVars, followVars, waitVars, runVars, submitVars, tailVars, parseVars, statusVars, listVars, nodeVars, cmdVars, waitLogVars>>

SpecStore == Init /\ [][NextStore]_vars

\* Two commands that write records at the same time, each to its end.
NextRace ==
    \/ (\E p \in Procs, name \in JobNames, id \in SlurmIds : CreateCall(p, name, id))
          /\ UNCHANGED <<connVars, sessVars, followVars, waitVars, runVars, submitVars, tailVars, parseVars, statusVars, listVars, nodeVars, cmdVars, waitLogVars>>
    \/ (\E p \in Procs, name \in JobNames, status \in Statuses, id \in SlurmIds :
            UpdateRead(p, name, status, id))
          /\ UNCHANGED <<connVars, sessVars, followVars, waitVars, runVars, submitVars, tailVars, parseVars, statusVars, listVars, nodeVars, cmdVars, waitLogVars>>
    \/ (\E p \in Procs : SaveOpen(p)) /\ UNCHANGED <<connVars, sessVars, followVars, waitVars, runVars, submitVars, tailVars, parseVars, statusVars, listVars, nodeVars, cmdVars, waitLogVars>>
    \/ (\E p \in Procs : SaveDump(p)) /\ UNCHANGED <<connVars, sessVars, followVars, waitVars, runVars, submitVars, tailVars, parseVars, statusVars, listVars, nodeVars, cmdVars, waitLogVars>>

SpecRace == Init /\ [][NextRace]_vars

NextRun ==
    \/ Tick /\ UNCHANGED <<connVars, sessVars, followVars, waitVars, storeVars, submitVars, tailVars, parseVars, statusVars, listVars, nodeVars, cmdVars, waitLogVars>>
    \/ (\E job \in RunJobs : Enqueue(job))
          /\ UNCHANGED <<connVars, sessVars, followVars, waitVars, storeVars, submitVars, tailVars, parseVars, statusVars, listVars, nodeVars, cmdVars, waitLogVars>>
    \/ (\E p \in RunProcs, job \in RunJobs : RunCall(p, job))
          /\ UNCHANGED <<connVars, sessVars, followVars, waitVars, storeVars, submitVars, tailVars, parseVars, statusVars, listVars, nodeVars, cmdVars, waitLogVars>>
    \/ (\E p \in RunProcs : MoveCopy(p))
          /\ UNCHANGED <<connVars, sessVars, followVars, waitVars, storeVars, submitVars, tailVars, parseVars, statusVars, listVars, nodeVars, cmdVars, waitLogVars>>
    \/ (\E p \in RunProcs : MoveUnlink(p))
          /\ UNCHANGED <<connVars, sessVars, followVars, waitVars, storeVars, submitVars, tailVars, parseVars, statusVars, listVars, nodeVars, cmdVars, waitLogVars>>
    \/ (\E p \in RunProcs : MoveSymlink(p))
          /\ UNCHANGED <<connVars, sessVars, followVars, waitVars, storeVars, submitVars, tailVars, parseVars, statusVars, listVars, nodeVars, cmdVars, waitLogVars>>
    \/ (\E p \in RunProcs, ok \in BOOLEAN, output \in Stdouts : RunSbatch(p, ok, output))
          /\ UNCHANGED <<connVars, sessVars, followVars, waitVars, storeVars, submitVars, tailVars, parseVars, statusVars, listVars, nodeVars, cmdVars, waitLogVars>>

SpecRun == Init /\ [][NextRun]_vars

NextSubmit ==
    \/ (\E name \in JobNames : SubmitCall(name))
          /\ UNCHANGED <<connVars, sessVars, followVars, waitVars, runVars, tailVars, parseVars, statusVars, listVars, nodeVars, cmdVars, waitLogVars>>
    \/ (\E ok \in BOOLEAN, output \in Stdouts : SubmitSbatch(ok, output))
          /\ UNCHANGED <<connVars, sessVars, followVars, waitVars, runVars, tailVars, parseVars, statusVars, listVars, nodeVars, cmdVars, waitLogVars>>
    \/ (\E name \in JobNames : QueueRecord(name))
          /\ UNCHANGED <<connVars, sessVars, followVars, waitVars, runVars, tailVars, parseVars, statusVars, listVars, nodeVars, cmdVars, waitLogVars>>
    \/ (\E name \in JobNames, state \in Statuses : StatusRefresh(name, state))
          /\ UNCHANGED <<connVars, sessVars, followVars, waitVars, runVars, tailVars, parseVars, statusVars, listVars, nodeVars, cmdVars, waitLogVars>>
    \/ SaveOpen(Submitter) /\ UNCHANGED <<connVars, sessVars, followVars, waitVars, runVars, submitVars, tailVars, parseVars, statusVars, listVars, nodeVars, cmdVars, waitLogVars>>
    \/ SaveDump(Submitter) /\ UNCHANGED <<connVars, sessVars, followVars, waitVars, runVars, submitVars, tailVars, parseVars, statusVars, listVars, nodeVars, cmdVars, waitLogVars>>

SpecSubmit == Init /\ [][NextSubmit]_vars

\* every CPU field and every scontrol answer, in either monitor
NextNodes ==
    \/ (\E monitor \in Monitors, parts \in CpuFields : ParseCpu(monitor, parts))
       /\ UNCHANGED <<connVars, sessVars, followVars, waitVars, storeVars, runVars, submitVars, tailVars, parseVars, statusVars, listVars, cmdVars, waitLogVars>>
    \/ (\E monitor \in Monitors, lines \in Inventories : GetNodes(monitor, lines))
       /\ UNCHANGED <<connVars, sessVars, followVars, waitVars, storeVars, runVars, submitVars, tailVars, parseVars, statusVars, listVars, cmdVars, waitLogVars>>
    \/ (\E monitor \in Monitors, ok \in BOOLEAN, gres \in GresTokens,
            gres_used \in GresUsedTokens : GetGpuInfo(monitor, ok, gres, gres_used))
       /\ UNCHANGED <<connVars, sessVars, followVars, waitVars, storeVars, runVars, submitVars, tailVars, parseVars, statusVars, listVars, cmdVars, waitLogVars>>

SpecNodes == Init /\ [][NextNodes]_vars

\* the commands on one job's record, one after the other
NextCmd ==
    \/ CreateRecord
       /\ UNCHANGED <<connVars, sessVars, followVars, waitVars, storeVars, runVars, submitVars, tailVars, parseVars, statusVars, listVars, nodeVars, waitLogVars>>
    \/ UpdateForRun
       /\ UNCHANGED <<connVars, sessVars, followVars, waitVars, storeVars, runVars, submitVars, tailVars, parseVars, statusVars, listVars, nodeVars, waitLogVars>>
    \/ (\E force, confirm, connect_ok, exit_ok, keyed \in BOOLEAN :
            CancelCommand(force, confirm, connect_ok, exit_ok, keyed))
       /\ UNCHANGED <<connVars, sessVars, followVars, waitVars, storeVars, runVars, submitVars, tailVars, parseVars, statusVars, listVars, nodeVars, waitLogVars>>
    \/ (\E connect_ok \in BOOLEAN, live \in LiveOutputs, hist \in HistOutputs :
            StatusCommand(connect_ok, live, hist))
       /\ UNCHANGED <<connVars, sessVars, followVars, waitVars, storeVars, runVars, submitVars, tailVars, parseVars, statusVars, listVars, nodeVars, waitLogVars>>

SpecCmd == Init /\ [][NextCmd]_vars

\* one call of wait_for_completion while the job writes its log
NextWaitLog ==
    \/ (\E b \in LogBytes : WaitLogAppend(b))
       /\ UNCHANGED <<connVars, sessVars, followVars, waitVars, storeVars, runVars, submitVars, tailVars, parseVars, statusVars, listVars, nodeVars, cmdVars>>
    \/ (\E follow \in BOOLEAN : WaitLogCall(follow))
       /\ UNCHANGED <<connVars, sessVars, followVars, waitVars, storeVars, runVars, submitVars, tailVars, parseVars, statusVars, listVars, nodeVars, cmdVars>>
    \/ (\E terminal, read_ok \in BOOLEAN : WaitLogPoll(terminal, read_ok))
       /\ UNCHANGED <<connVars, sessVars, followVars, waitVars, storeVars, runVars, submitVars, tailVars, parseVars, statusVars, listVars, nodeVars, cmdVars>>
    \/ WaitLogSleep
       /\ UNCHANGED <<connVars, sessVars, followVars, waitVars, storeVars, runVars, submitVars, tailVars, parseVars, statusVars, listVars, nodeVars, cmdVars>>

SpecWaitLog == Init /\ [][NextWaitLog]_vars

\* record files written over time, and listed
NextList ==
    \/ ListTick
       /\ UNCHANGED <<connVars, sessVars, followVars, waitVars, storeVars, runVars, submitVars, tailVars, parseVars, statusVars, nodeVars, cmdVars, waitLogVars>>
    \/ (\E f \in ListFiles, valid \in BOOLEAN : ListWrite(f, valid))
       /\ UNCHANGED <<connVars, sessVars, followVars, waitVars, storeVars, runVars, submitVars, tailVars, parseVars, statusVars, nodeVars, cmdVars, waitLogVars>>
    \/ (\E limit \in Limits, job_files \in SortedByMtime(l_dir) : ListJobs(limit, job_files))
       /\ UNCHANGED <<connVars, sessVars, followVars, waitVars, storeVars, runVars, submitVars, tailVars, parseVars, statusVars, nodeVars, cmdVars, waitLogVars>>
    \/ (\E id \in ListFiles, job_files \in SortedByMtime(l_dir) : FindBySlurmId(id, job_files))
       /\ UNCHANGED <<connVars, sessVars, followVars, waitVars, storeVars, runVars, submitVars, tailVars, parseVars, statusVars, nodeVars, cmdVars, waitLogVars>>

SpecList == Init /\ [][NextList]_vars

\* one get_status call, for every pair of answers the scheduler can give
NextStatus ==
    \/ (m_pc = "idle"
            /\ \E live, hist \in StateStrings \cup {NoOutput} : GetStatusCall(live, hist))
       /\ UNCHANGED <<connVars, sessVars, followVars, waitVars, storeVars, runVars, submitVars, tailVars, parseVars, listVars, nodeVars, cmdVars, waitLogVars>>
    \/ (\E ok, short \in BOOLEAN : SqueueQuery(ok, short))
       /\ UNCHANGED <<connVars, sessVars, followVars, waitVars, storeVars, runVars, submitVars, tailVars, parseVars, listVars, nodeVars, cmdVars, waitLogVars>>
    \/ (\E ok, short \in BOOLEAN : SacctQuery(ok, short))
       /\ UNCHANGED <<connVars, sessVars, followVars, waitVars, storeVars, runVars, submitVars, tailVars, parseVars, listVars, nodeVars, cmdVars, waitLogVars>>

SpecStatus == Init /\ [][NextStatus]_vars

\* SlurmBackend.submit called with any sbatch result
NextParse ==
    (\E ok \in BOOLEAN, output \in SbatchOutputs : BackendSubmit(ok, output))
       /\ UNCHANGED <<connVars, sessVars, followVars, waitVars, storeVars, runVars, submitVars, tailVars, statusVars, listVars, nodeVars, cmdVars, waitLogVars>>

SpecParse == Init /\ [][NextParse]_vars

(***************************************************************************)
(* C1: an attempt that fails with an authentication failure or a           *)
(* host-resolution failure (the failure kinds are the ones the handler     *)
(* tells apart by the error text) makes connect raise at once: it is the   *)
(* last attempt of the call and no backoff sleep follows it, whatever      *)
(* `retries` is and whichever attempt it is.                               *)
(***************************************************************************)
C1_NonRetryableFailsAtOnce ==
    \A i \in DOMAIN c_results :
        c_results[i] \in {"auth_failed", "host_not_found"} =>
            /\ i = Len(c_results)
            /\ c_pc = "raised"
            /\ Len(c_sleeps) = i - 1
            /\ Classify(last_error) = c_results[i]

C1_Witness ==
    /\ c_pc = "raised"
    /\ Len(c_results) = 2
    /\ retries = 3
    /\ Last(c_results) = "host_not_found"
    /\ c_sleeps = <<1>>

(***************************************************************************)
(* C2: connect(retries = n) terminates; it makes at most n attempts,       *)
(* returns on the first attempt that succeeds, sleeps 2^(i-1) seconds      *)
(* after failed retryable attempt i when another attempt follows, does not *)
(* sleep after the last attempt, and raises once n attempts have failed.   *)
(***************************************************************************)
C2_Safety ==
    /\ Len(c_results) <= retries
    /\ \A i \in DOMAIN c_results : c_results[i] = "ok" => i = Len(c_results)
    /\ \A i \in DOMAIN c_sleeps : c_sleeps[i] = Pow2(i - 1)
    /\ Len(c_sleeps) <= Len(c_results)
    /\ Len(c_sleeps) < retries \/ retries = 0
    /\ c_pc = "attempt" => Len(c_sleeps) = Len(c_results) /\ Len(c_results) < retries
    /\ c_pc = "sleep" => Len(c_sleeps) = Len(c_results) - 1 /\ Len(c_results) < retries
    /\ c_pc = "returned" =>
          /\ Len(c_results) >= 1 /\ Last(c_results) = "ok"
          /\ connection # "failed"
          /\ Len(c_sleeps) = Len(c_results) - 1
    /\ c_pc = "raised" =>
          /\ \A i \in DOMAIN c_results : c_results[i] # "ok"
          /\ \/ Len(c_results) = retries
             \/ Len(c_results) >= 1 /\ Last(c_results) \in NonRetryable
          /\ retries > 0 => Len(c_sleeps) = Len(c_results) - 1
    /\ (Len(c_results) = retries /\ retries > 0 /\ Last(c_results) # "ok")
          => c_pc = "raised"

C2_ConnectTerminates ==
    /\ []C2_Safety
    /\ (c_pc \in {"attempt", "sleep"}) ~> (c_pc \in {"returned", "raised"})

C2_Witness ==
    /\ c_pc = "raised"
    /\ retries = 3
    /\ c_results = <<"connection_refused", "timeout", "generic">>
    /\ c_sleeps = <<1, 2>>

(***************************************************************************)
(* C3: in follow mode, whenever the loop is between two polls, the chunks  *)
(* yielded by the polls so far are exactly the bytes of the file from the  *)
(* first offset to the current offset (last_size), in order and once each: *)
(* nothing appended is dropped or read twice, also when the file grows     *)
(* between the size query and the read or when a query or a read fails.    *)
(***************************************************************************)
C3_FollowEmitsExactlyAppended ==
    f_pc = "sleep" => Flatten(f_chunks) = SubSeq(f_file, f_offset0 + 1, last_size)

(***************************************************************************)
(* C4: wait_for_completion stops polling exactly when a terminal state is  *)
(* observed: a poll that observes COMPLETED, FAILED, CANCELLED, TIMEOUT,   *)
(* NODE_FAIL or OUT_OF_MEMORY is the last poll, the call has returned that *)
(* state, no sleep follows it, and the call has not returned while every   *)
(* observed state is non-terminal.                                         *)
(***************************************************************************)
C4_StopsExactlyAtTerminal ==
    LET terminal == {"COMPLETED", "FAILED", "CANCELLED", "TIMEOUT", "NODE_FAIL",
                     "OUT_OF_MEMORY"}
    IN  /\ \A i \in DOMAIN w_observed :
              w_observed[i] \in terminal =>
                  /\ i = Len(w_observed)
                  /\ w_pc = "returned"
                  /\ w_result = w_observed[i]
                  /\ w_sleeps = i - 1
        /\ w_pc = "returned" =>
              Len(w_observed) >= 1 /\ Last(w_observed) \in terminal

C4_Witness ==
    /\ w_pc = "returned"
    /\ w_observed = <<"PENDING", "RUNNING", "OUT_OF_MEMORY">>
    /\ w_result = "OUT_OF_MEMORY"
    /\ w_sleeps = 2

(***************************************************************************)
(* C5: a status query that fails (an exception, or neither source yields a *)
(* state) after an earlier poll leaves the tracked job state at its last   *)
(* known value: the failed poll does not change last_state (and so does    *)
(* not set it to UNKNOWN).                                                 *)
(***************************************************************************)
C5_FailedQueryKeepsState ==
    [][(/\ Len(w_observed) >= 1
        /\ Len(w_observed') = Len(w_observed) + 1
        /\ w_last_query' = "failed")
          => w_last_state' = w_last_state]_vars

(***************************************************************************)
(* C6: a submission whose sbatch exits non-zero or prints no sentinel ends *)
(* the command as failed with nothing to write, and the store never shows  *)
(* a SUBMITTED or RUNNING record, or a record with a scheduler id, for a   *)
(* job none of whose submissions succeeded.                                *)
(***************************************************************************)
C6_FailedSubmitLeavesNoSubmittedRecord ==
    /\ sub_pc = "failed" => s_pc[Submitter] = "idle"
    /\ \A st \in Stems :
          (/\ files[st].kind = "whole"
           /\ \/ files[st].rec.status \in {"SUBMITTED", "RUNNING"}
              \/ files[st].rec.slurm_job_id # "none")
          => files[st].rec.name \in sub_ok_names
    /\ \A p \in Procs :
          (s_pc[p] # "idle" /\ s_rec[p].slurm_job_id # "none")
          => s_rec[p].name \in sub_ok_names

\* a failed submission of a queued job next to a running, submitted one
C6_Witness ==
    /\ sub_pc = "failed"
    /\ sub_name = <<"a", "_", "b", "c">>
    /\ files[<<"a", "_", "b", "c">>] =
          Whole([name |-> <<"a", "_", "b", "c">>, status |-> "QUEUED",
                 slurm_job_id |-> "none"])
    /\ files[<<"a", "_", "b">>].kind = "whole"
    /\ files[<<"a", "_", "b">>].rec.status = "RUNNING"

(***************************************************************************)
(* C7: at every instant every record file holds a complete record (or does *)
(* not exist): no reader, and no interruption of a writer, finds a file    *)
(* that is empty, truncated or partially written.                          *)
(***************************************************************************)
C7_NoTornRecordFile ==
    \A st \in Stems : files[st].kind \in {"absent", "whole"}

(***************************************************************************)
(* C10: find_job_by_prefix(prefix) is a usage error for a prefix shorter   *)
(* than the minimum length; otherwise, with M the record files of the      *)
(* store that the prefix matches, it gives none when M is empty, the       *)
(* record of the file when M has one element, and the ambiguity error,     *)
(* never a record, when M has several.                                     *)
(***************************************************************************)
C10_PrefixLookupOutcome ==
    s_lookup # NoLookup =>
        LET prefix == s_lookup.prefix
            result == s_lookup.result
            M == {st \in Stems : files[st].kind # "absent" /\ IsPrefix(prefix, st)}
        IN  IF Len(prefix) < 2 THEN result.kind = "usage_error"
            ELSE IF M = {} THEN result.kind = "none"
            ELSE IF Cardinality(M) = 1 THEN result.kind = "record"
            ELSE result.kind = "ambiguous"

(***************************************************************************)
(* C8: the active pointer of a job is repointed atomically: once it        *)
(* refers to a run directory, every step leaves it referring to an         *)
(* existing run directory, the previous one or the new one; no observer    *)
(* finds it missing or dangling.                                           *)
(***************************************************************************)
C8_ActivePointerAtomic ==
    [][\A j \in RunJobs :
          active[j] # NoRun => (active'[j] # NoRun /\ active'[j] \in run_dirs')]_vars

(***************************************************************************)
(* C9: every run gets its own run id: no two invocations of `run` are      *)
(* given the same run id, and none fails because its run directory         *)
(* already exists.                                                         *)
(***************************************************************************)
C9_RunIdsUnique ==
    /\ \A i, k \in DOMAIN r_log : i # k => r_log[i] # r_log[k]
    /\ \A p \in RunProcs : r_pc[p] # "copy_exists"

(***************************************************************************)
(* C11: in the status, logs and cancel commands an ambiguous prefix is     *)
(* reported as such: when the prefix lookup of the command raised the      *)
(* ambiguity error, the command neither reports "job not found" nor        *)
(* resolves the argument some other way.                                   *)
(***************************************************************************)
C11_AmbiguityReachesUser ==
    s_cmd.prefix_kind = "ambiguous" => s_cmd.outcome \notin {"not_found", "found"}

(***************************************************************************)
(* C12: identifiers are unique in the store: saving a record under one     *)
(* identifier never changes what another identifier reads, so get_job(name) *)
(* only ever returns a record whose name is `name`.                        *)
(***************************************************************************)
C12_GetJobReturnsOwnRecord ==
    \A name \in JobNames :
        get_job(name).kind = "record" => get_job(name).rec.name = name

C14_LastWriterWins ==
    [][\A p \in Procs :
          (/\ s_pc[p] = "opened"
           /\ s_pc'[p] = "idle"
           /\ \A q \in Procs : s_pc'[q] = "idle")
          => files'[get_job_file(s_rec[p].name)] = Whole(s_rec[p])]_vars

(***************************************************************************)
(* C15: the instance owns at most one open connection: no connection that  *)
(* was opened and not closed is left unreferenced by a later connect,      *)
(* explicit or on entry of a `with` block.                                 *)
(***************************************************************************)
C15_NoOrphanConnection == c_orphans = 0

(***************************************************************************)
(* C16: a `with` block entered on a newly made client releases the         *)
(* connection however its body ends (normally, by an exception, by an      *)
(* interrupt): when the block is left the instance holds no connection and *)
(* none is left open.                                                      *)
(***************************************************************************)
C16_WithReleasesConnection ==
    [][(c_with = "in" /\ c_with' = "left" /\ c_fresh)
          => (connection' = "none" /\ c_orphans' = 0)]_vars

\* a block whose body raised (run_checked failed) has been left
C16_Witness ==
    /\ c_with = "left"
    /\ c_fresh
    /\ c_op.op = "run_checked"
    /\ c_op.outcome = "RuntimeError"
    /\ connection = "none"

(***************************************************************************)
(* C17: close is idempotent and always safe: a call returns and leaves the *)
(* instance holding no connection; a call on an instance that holds none   *)
(* (before any connect, or after an earlier close) changes nothing.        *)
(***************************************************************************)
C17_CloseIdempotent ==
    [][(c_op' # c_op /\ c_op'.op = "close")
          => /\ connection' = "none"
             /\ c_op'.outcome = "returned"
             /\ connection = "none" => UNCHANGED connVars]_vars

\* a close that found nothing to release after a connect had returned
C17_Witness ==
    /\ c_op.op = "close"
    /\ c_op.message = "none"
    /\ c_pc = "returned"
    /\ connection = "none"

(***************************************************************************)
(* C18: run with warn=True never raises for a non-zero exit status: it     *)
(* returns a result carrying the exit status, with ok true exactly when    *)
(* the status is 0.                                                        *)
(***************************************************************************)
C18_TolerantRunReturns ==
    (c_op.op = "run" /\ c_op.warn)
        => /\ c_op.outcome = "returned"
           /\ c_op.return_code = c_op.exit
           /\ c_op.ok = (c_op.exit = 0)

C18_Witness ==
    /\ c_op.op = "run"
    /\ c_op.warn
    /\ c_op.exit = 127
    /\ c_op.outcome = "returned"
    /\ ~c_op.ok

(***************************************************************************)
(* C19: with failure not tolerated (run with warn=False, run_checked) a    *)
(* command that exits non-zero ends in a fatal local error that carries    *)
(* the captured stderr, not in an ordinary result.                         *)
(***************************************************************************)
C19_IntolerantRunIsFatal ==
    (c_op.op \in {"run", "run_checked"} /\ ~c_op.warn /\ c_op.exit # 0)
        => (c_op.outcome = "RuntimeError" /\ c_op.message = c_op.stderr)

(***************************************************************************)
(* C20 as stated: with follow=True tail_logs never ends by itself, for any *)
(* record and any remote state.                                            *)
(***************************************************************************)
C20_FollowNeverEnds ==
    t_follow => t_pc # "ended"

(***************************************************************************)
(* C20, amended: with follow=False tail_logs ends after exactly one chunk; *)
(* with follow=True it never ends by itself once `ls` has named a log      *)
(* file; when `ls` fails or names no file it yields the one "no log file   *)
(* found" marker and ends, with follow=True too.                           *)
(***************************************************************************)
C20_TailEnds ==
    /\ [](t_pc = "ended" => Len(t_out) = 1)
    /\ []((t_pc \notin {"idle", "paths"} /\ t_ls.ok /\ t_ls.out # "" /\ t_follow)
            => (t_pc \in {"following"} \cup CancelKinds /\ t_out = <<>>))
    /\ []((t_pc \notin {"idle", "paths"} /\ ~(t_ls.ok /\ t_ls.out # ""))
            => (t_pc = "ended" /\ t_out = <<"marker">>))
    /\ ((t_pc = "paths" /\ ~t_follow) ~> (t_pc = "ended"))

C20_Witness ==
    /\ t_follow
    /\ t_pc = "following"
    /\ f_pc = "sleep"
    /\ Len(f_chunks) >= 2

(***************************************************************************)
(* C21: cancelling follow mode never closes the SSH session: no step of    *)
(* tail_logs or _follow_log, and no interruption or abandonment of the     *)
(* iterator, closes the client's open connection; the caller can run       *)
(* further commands on it afterwards.                                      *)
(***************************************************************************)
C21_TailerKeepsSession ==
    [][((tailVars' # tailVars
            \/ <<f_pc, last_size, current_size, f_chunks>>'
                  # <<f_pc, last_size, current_size, f_chunks>>)
         /\ connection = "open")
       => (connection' = "open" /\ c_orphans' = c_orphans)]_vars

C21_Witness ==
    /\ t_pc = "interrupted"
    /\ f_chunks # <<>>
    /\ connection = "open"
    /\ c_op.op = "run"
    /\ c_op.outcome = "returned"

(***************************************************************************)
(* C22: log paths are resolved anew by every call.  When the record's      *)
(* log_dir holds no log file at the call, tail_logs yields the one "no log *)
(* file found" marker and ends, and get_logs returns empty contents and    *)
(* empty paths; neither raises.  A file that appeared since an earlier     *)
(* call is found by the next one.                                          *)
(***************************************************************************)
C22_NoLogFileIsSignalled ==
    /\ (t_pc \notin {"idle", "paths"} /\ t_ls.files = {})
          => (t_pc = "ended" /\ t_out = <<"marker">> /\ t_path = "")
    /\ (g_logs.called /\ g_logs.files = {})
          => /\ g_logs.stdout = "" /\ g_logs.stderr = ""
             /\ g_logs.stdout_path = "" /\ g_logs.stderr_path = ""
    /\ (t_pc \notin {"idle", "paths"} /\ t_ls.ok)
          => t_path = (IF StreamExt(t_stream) \in t_ls.files
                       THEN LogName[StreamExt(t_stream)] ELSE "")

C22_Witness ==
    /\ g_logs.called
    /\ g_logs.files = {}
    /\ g_logs.stdout_path = ""
    /\ t_pc = "ended"
    /\ t_out = <<"content">>
    /\ t_path = LogName.out

(***************************************************************************)
(* C23: the scheduler id is the final token of sbatch's stdout and that    *)
(* token comes after the phrase "Submitted batch job"; when the phrase is  *)
(* absent the submit ends in a fatal error and no id is produced.          *)
(***************************************************************************)
C23_IdIsTokenAfterPhrase ==
    b_result.outcome # "none"
        => IF b_result.outcome = "returned"
           THEN /\ HasSentinel(b_output)
                /\ b_result.slurm_job_id = b_output[Len(b_output)]
                /\ \E i \in 1..(Len(b_output) - 3) :
                      /\ b_output[i] = "Submitted"
                      /\ b_output[i + 1] = "batch"
                      /\ b_output[i + 2] = "job"
           ELSE b_result.slurm_job_id = "none"

(***************************************************************************)
(* C24: get_status queries squeue first and queries sacct only when        *)
(* squeue yielded nothing; when both sources report the job, the state     *)
(* returned is the one squeue reports.                                     *)
(***************************************************************************)
C24_LiveQueueFirst ==
    /\ m_asked \in {<<>>, <<"squeue">>, <<"squeue", "sacct">>}
    /\ (Len(m_asked) = 2) => (~m_sq.ok \/ m_sq.short \/ m_live = NoOutput)
    /\ (m_pc = "returned" /\ m_sq.ok /\ ~m_sq.short
            /\ m_live # NoOutput /\ m_hist # NoOutput)
          => /\ m_asked = <<"squeue">>
             /\ m_status.source = "squeue"
             /\ m_status.state = from_string(m_live)
             /\ (m_live.core \in JobStates
                    /\ ~m_live.lower /\ ~m_live.padded /\ ~m_live.suffix)
                  => m_status.state = m_live.core

C24_Witness ==
    /\ m_pc = "returned"
    /\ m_sq.ok /\ ~m_sq.short
    /\ m_live.core = "RUNNING"
    /\ m_hist.core = "COMPLETED"
    /\ m_status.state = "RUNNING"

(***************************************************************************)
(* C25: a record is never deleted automatically.  What get_job(n) returns  *)
(* changes only in a delete_job(n) or in a save of a record named n;       *)
(* delete_job(n) returns True exactly when a record named n existed, and   *)
(* afterwards get_job(n) returns None.                                     *)
(***************************************************************************)
C25_ExplicitDeleteOnly ==
    [][/\ \A n \in JobNames :
            (read_job(files', n) # read_job(files, n))
               => \/ (s_cmd' # s_cmd /\ s_cmd'.input = n
                        /\ s_cmd'.outcome = "delete_true")
                  \/ \E p \in Procs :
                        s_pc[p] \in {"loaded", "opened"} /\ s_rec[p].name = n
       /\ (s_cmd' # s_cmd /\ s_cmd'.outcome \in {"delete_true", "delete_false"})
            => /\ (s_cmd'.outcome = "delete_true")
                    <=> (read_job(files, s_cmd'.input).kind = "record"
                            /\ read_job(files, s_cmd'.input).rec.name = s_cmd'.input)
               /\ read_job(files', s_cmd'.input).kind = "none"]_vars

C27_ListNewestFirstAtMostLimit ==
    /\ Len(l_result) <= (IF l_limit > 0 THEN l_limit ELSE 0)
    /\ \A i, j \in 1..Len(l_result) :
          i < j => l_dir[l_result[i]].mtime >= l_dir[l_result[j]].mtime

(***************************************************************************)
(* C28: a malformed record file is never fatal to a listing.  list_jobs    *)
(* returns well-formed records only, all of them when the limit covers the *)
(* directory, and find_job_by_slurm_id finds a well-formed record that     *)
(* carries the id whatever malformed files lie beside it.                  *)
(***************************************************************************)
C28_MalformedFilesSkipped ==
    LET present == {f \in ListFiles : l_dir[f] # NoFile}
        returned == {l_result[i] : i \in 1..Len(l_result)}
    IN  /\ \A f \in returned : l_dir[f].valid
        /\ l_limit >= Cardinality(present)
              => returned = {f \in present : l_dir[f].valid}
        /\ l_found # NoFound
              => IF l_dir[l_found.slurm_job_id].valid
                 THEN l_found.result = l_found.slurm_job_id
                 ELSE l_found.result = "none"

C28_Witness ==
    /\ l_dir["f1"].mtime = 1 /\ ~l_dir["f1"].valid
    /\ l_dir["f2"].mtime = 0 /\ l_dir["f2"].valid
    /\ l_limit = 2
    /\ l_result = <<"f2">>
    /\ l_found = [slurm_job_id |-> "f2", result |-> "f2"]

(***************************************************************************)
(* C29: every GPU record the node parsers emit has free = total - used and *)
(* free >= 0; an in-use count above the declared count gives None, and so  *)
(* does a node without a GPU token (a zero-GPU node gives a record).       *)
(***************************************************************************)
C29_GpuFreeNeverNegative ==
    n_call.op = "gpu"
        => /\ n_call.result.kind = "GPUInfo"
                => /\ n_call.result.free = n_call.result.total - n_call.result.used
                   /\ n_call.result.free >= 0
           /\ (n_call.gres.form # "absent" /\ n_call.gres_used.form = n_call.gres.form
                  /\ n_call.gres_used.count > n_call.gres.count)
                => n_call.result.kind = "None"
           /\ n_call.gres.form = "absent" => n_call.result.kind = "None"
           /\ (n_call.ok /\ n_call.gres.form # "absent" /\ n_call.gres.count = 0
                  /\ n_call.gres_used.count = 0)
                => (n_call.result.kind = "GPUInfo" /\ n_call.result.total = 0)

(***************************************************************************)
(* C30: in both monitors a CPU field "a/i/o/t" parses to (a, t), a field   *)
(* "u/t" to (u, t), and a field of any other shape to (0, 0).              *)
(***************************************************************************)
C30_CpuFieldParse ==
    n_call.op = "cpu"
        => LET parts == n_call.parts
               numeric == \A i \in 1..Len(parts) : IsInt(parts[i])
           IN  IF Len(parts) = 4 /\ numeric
               THEN n_call.result = <<ToInt(parts[1]), ToInt(parts[4])>>
               ELSE IF Len(parts) = 2 /\ numeric
               THEN n_call.result = <<ToInt(parts[1]), ToInt(parts[2])>>
               ELSE n_call.result = <<0, 0>>

(***************************************************************************)
(* C31: JobState.from_string never raises and never lets a raw string      *)
(* through: the state of every JobStatus the parsers build is a member of  *)
(* the enum, the one the trimmed, upper-cased string names, and UNKNOWN    *)
(* when it names none.                                                     *)
(***************************************************************************)
C31_StateIsEnumMember ==
    m_status.source # "none"
        => LET raw == IF m_status.source = "squeue" THEN m_live ELSE m_hist
           IN  /\ m_status.state \in JobStates
               /\ m_status.state =
                     (IF raw.core \in JobStates /\ ~raw.suffix
                      THEN raw.core ELSE "UNKNOWN")

C31_Witness ==
    /\ m_status.source = "squeue"
    /\ m_live.core = "REQUEUED"
    /\ m_status.state = "UNKNOWN"

(***************************************************************************)
(* C32: get_nodes returns one NodeInfo per distinct node name: the first   *)
(* whole line with the name gives its values; blank lines and lines with   *)
(* fewer than five fields are dropped and are no occurrence.               *)
(***************************************************************************)
C32_FirstOccurrenceWins ==
    n_call.op = "nodes"
        => LET lines == n_call.lines
               nodes == n_call.result
               First(name) ==
                   CHOOSE i \in 1..Len(lines) :
                       /\ lines[i].kind = "full" /\ lines[i].name = name
                       /\ \A j \in 1..(i - 1) :
                             ~(lines[j].kind = "full" /\ lines[j].name = name)
               named == {lines[i].name : i \in {k \in 1..Len(lines) : lines[k].kind = "full"}}
           IN  /\ \A i, j \in 1..Len(nodes) : i # j => nodes[i].name # nodes[j].name
               /\ {nodes[i].name : i \in 1..Len(nodes)} = named
               /\ \A i \in 1..Len(nodes) :
                     nodes[i].partition = lines[First(nodes[i].name)].partition
               /\ \A i, j \in 1..Len(nodes) :
                     i < j => First(nodes[i].name) < First(nodes[j].name)

C32_Witness ==
    /\ n_call.op = "nodes"
    /\ Len(n_call.lines) = 3
    /\ n_call.lines[1] = [kind |-> "short", name |-> "n1", padded |-> FALSE, partition |-> ""]
    /\ n_call.lines[2] = [kind |-> "full", name |-> "n1", padded |-> TRUE, partition |-> "pb"]
    /\ n_call.lines[3] = [kind |-> "full", name |-> "n1", padded |-> FALSE, partition |-> "pa"]
    /\ n_call.result = <<[name |-> "n1", partition |-> "pb"]>>

(***************************************************************************)
(* C33: cancel writes CANCELLED into the record only after scancel exited  *)
(* 0; when the user declines, the connection fails or scancel fails, the   *)
(* record file is what it was before the command.                          *)
(***************************************************************************)
C33_CancelledOnlyAfterExit0 ==
    k_last.op = "cancel"
        => /\ k_file # k_last.before
                => /\ k_last.scancel = "exit0"
                   /\ k_file = [k_last.before EXCEPT !.status = "CANCELLED"]
           /\ (\/ k_last.confirm = "declined"
               \/ k_last.connect = "failed"
               \/ k_last.scancel = "failed")
                => k_file = k_last.before

C33_Witness ==
    /\ k_last.op = "cancel"
    /\ k_last.confirm = "accepted"
    /\ k_last.scancel = "exit0"
    /\ k_last.before.status = "SUBMITTED"
    /\ k_file.status = "CANCELLED"

(***************************************************************************)
(* C34: when the status command got no status from the scheduler (the      *)
(* connection failed, neither source has the job, or the record has no     *)
(* scheduler id), the record file is as it was and the stored status is    *)
(* what the command shows.                                                 *)
(***************************************************************************)
C34_LastKnownShown ==
    (k_last.op = "status" /\ k_last.before.kind = "whole" /\ k_last.state = "none")
        => /\ k_file = k_last.before
           /\ k_last.shown = "last_known"

(***************************************************************************)
(* C38: a record whose stored status is terminal never gets a status that  *)
(* is not terminal from a later status or cancel command.                  *)
(***************************************************************************)
C38_TerminalStaysTerminal ==
    (/\ k_last.op \in {"status", "cancel"}
     /\ k_last.before.kind = "whole"
     /\ k_last.before.status \in Terminal
     /\ k_file.kind = "whole")
        => k_file.status \in Terminal

(***************************************************************************)
(* C35: update_job_status(name, ...) goes on to write only when a record   *)
(* of the identifier `name` is stored, and then the record it writes has   *)
(* the stored values in every field but `status` and the fields passed;    *)
(* with no record of `name` it returns False.                              *)
(***************************************************************************)
C35_UpdateKeepsOtherFields ==
    \A p \in Procs :
        (s_cmd.outcome = "update_true" /\ s_pc[p] = "loaded" /\ s_rec[p].name = s_cmd.rec.name)
            => /\ s_cmd.rec.name = s_cmd.input
               /\ s_rec[p].name = s_cmd.input
               /\ s_rec[p].slurm_job_id \in {s_cmd.rec.slurm_job_id, "101"}

(***************************************************************************)
(* C36: when connect has raised SSHConnectionError the instance holds no   *)
(* connection (_connection is None), so that the `connection` property     *)
(* connects afresh.                                                        *)
(***************************************************************************)
C36_RaisedHoldsNoConnection ==
    (c_pc = "raised" /\ c_results # <<>>) => connection = "none"

(***************************************************************************)
(* C37: wait_for_completion returns once the job is in a final state of    *)
(* the scheduler, PREEMPTED included: a final state does not change any    *)
(* more, so the call can only return if the poll that observes it ends the *)
(* loop; after a poll that observed PREEMPTED the call has returned.       *)
(***************************************************************************)
C37_FinalStateEndsWait ==
    (w_observed # <<>> /\ Last(w_observed) = "PREEMPTED") => w_pc = "returned"

(***************************************************************************)
(* C39: the active pointer of a job designates only runs that were         *)
(* submitted: a run command that ended because sbatch failed (non-zero     *)
(* exit or no sentinel) has not left the pointer on its own run directory. *)
(***************************************************************************)
C39_ActiveOnlySubmitted ==
    \A p \in RunProcs :
        (r_pc[p] = "exit1" /\ r_id[p] # NoRun) => active[r_job[p]] # r_id[p]

(***************************************************************************)
(* C40: with follow_logs=True, when wait_for_completion returns, every     *)
(* byte that was in the log file when the terminal state was observed has  *)
(* been printed, each once and in order.                                   *)
(***************************************************************************)
C40_LogPrintedAtReturn ==
    (v_pc = "returned" /\ follow_logs) => v_printed = v_log

====
